---------------------------- MODULE Spec2Model ----------------------------
(***************************************************************************)
(* ThinMCP gateway: the Upstream Manager (src/src/upstream-manager.ts),    *)
(* the Catalog Store, the Tool Proxy and the input validator               *)
(* (src/unnamed/part_005) and the Sync Service (src/src/sync-service.ts).  *)
(*                                                                         *)
(* The JavaScript runtime is single threaded: a handler runs from one      *)
(* await to the next without interruption.  Each action below is one such  *)
(* run-to-await segment; every await is a point where any other enabled    *)
(* segment, timer or transport callback may run first.                     *)
(*                                                                         *)
(* The maps of the Upstream Manager are keyed by serverId and no code path *)
(* of one server reads another server's entries, so the manager is         *)
(* modelled for one configured server whose configuration (transport kind, *)
(* enabled flag, credential present) is drawn in the initial state.        *)
(***************************************************************************)
EXTENDS Integers, Sequences, FiniteSets, TLC

\* ------------------------------------------------------------- bounds
\* listTools/callTool invocations on the server in one behaviour
NumCalls == 2
\* invocations in one behaviour where operations race on one backoff deadline:
\* one that sets a deadline, one that waits for it, one that sets a later one
NumRacingCalls == 3
\* connection attempts (transports built) in one behaviour
MaxAttempts == 2
\* ------------------------------------------- retry policy (stdioPolicy)
\* Time is counted in units of 250 ms, the default baseBackoffMs.  The policy
\* is { maxRetries: 1, baseBackoffMs: 250, maxBackoffMs: 500 }: one retry as in
\* the retry test, the default base, and a cap the second failure reaches.
\* The code reads the clock only in differences (a deadline minus Date.now()),
\* so every deadline is kept as the time still to run until it, 0 once passed.
maxRetries == 1
baseBackoffMs == 1
maxBackoffMs == 2

\* syncServer runs in flight at a time
NumSyncs == 2
\* tools in one tools/list answer of an upstream
MaxTools == 2
\* ToolProxy.call invocations in one behaviour
NumProxyCalls == 1

Calls == 1..(IF NumRacingCalls > NumCalls THEN NumRacingCalls ELSE NumCalls)
AttemptIds == 1..MaxAttempts
ProxyCalls == 1..NumProxyCalls

VARIABLES
  \* ---- Upstream Manager
  invocations,  \* how many listTools/callTool invocations the callers make
  cfg,          \* the server's SourceServerConfig: transport, enabled, tokenMissing
  connections,  \* this.connections.get(serverId): 0 (absent) or the connection's id
  connecting,   \* this.connecting.get(serverId): 0 (absent) or the attempt's id
  health,       \* this.healthByServer.get(serverId)
  att,          \* per attempt: state of the connect promise built in getConnection
  attWake,      \* per attempt: time left of its waitIfBackoffActive sleep
  tr,           \* per attempt: state of the transport it built
  oncl,         \* per attempt: the transport.onclose callback: unset, armed, fired
  nextAtt,      \* next unused attempt id
  pc,           \* per invocation: position in withServerOperation
  attemptNo,    \* per invocation: the loop variable attempt
  held,         \* per invocation: the attempt awaited / the connection in use
  disposing,    \* per invocation: the connection its disposeConnection closes (0: none)
  wake,         \* per invocation: time left of its sleep
  lastDone,     \* outcome of the most recently completed invocation: none, ok, fail
  overlapped,   \* an invocation has started while another was in progress (history)
  closer,       \* closeAll: idle, settling, returned
  closeTarget,  \* the connection closeAll is disposing (0: none)
  deadline,     \* the latest nextRetryAtMs a failed attempt has set, as the time
                \* still to run until it, and whether a transport was built
                \* before it (history)
  snapshot,     \* what getHealthSnapshot last returned for the server
  ops           \* per invocation: attempts begun, retries scheduled, the attempt
                \* whose error lastError holds, the one thrown, the outcome (history)

upVars == <<invocations, cfg, connections, connecting, health, att, attWake, tr, oncl, nextAtt,
            pc, attemptNo, held, disposing, wake, lastDone, overlapped,
            closer, closeTarget, deadline, snapshot, ops>>

VARIABLES
  \* ---- Catalog Store (the SQLite database) and Sync Service
  configs,       \* the configured servers (SourceServerConfig[]), immutable
  servers,       \* table servers: rows id, enabled, allowTools, lastSynced
  tools,         \* table tools: rows unique in (serverId, toolName)
  snapshots,     \* table snapshots in insertion order (by id)
  syncing,       \* per server: the syncServer runs awaiting its tools/list answer
  lastCommitted, \* per server: hash and tools of the most recent
                 \* replaceServerTools call that returned (history)
  searched,      \* query and result of the most recent searchTools call since
                 \* the tools table last changed (history)
  lastThrown     \* the database before and after the most recent
                 \* replaceServerTools call, when that call threw (history,
                 \* kept where `on` is set)

catVars == <<configs, servers, tools, snapshots, syncing, lastCommitted,
             searched, lastThrown>>

VARIABLES
  \* ---- Tool Proxy
  hasRefresh,     \* options.refreshServer is configured
  validatorByKey, \* ToolInputValidator.validatorByKey
  pxPc,           \* per call: position in ToolProxy.call
  pxIn,           \* per call: its ExecuteToolInput
  pxKnown,        \* per call: knownTool
  pxOut,          \* per call: how it settled
  dispatch,       \* the most recent upstream.callTool of the proxy (history)
  forwarded,      \* per call: the upstream.callTool calls it made (history)
  trail           \* per call: its catalog lookups, refresh hook runs and
                  \* validations, in order (history)

pxVars == <<hasRefresh, validatorByKey, pxPc, pxIn, pxKnown, pxOut, dispatch,
            forwarded, trail>>

VARIABLES
  \* ---- retry policy of a manager constructed with options (computeBackoffMs)
  stdioPolicy,   \* this.stdioPolicy, in tenths of a millisecond
  failures,      \* the consecutiveFailures value the delay was last computed for
  backoffMs,       \* the delay computed for it
  prevBackoffMs    \* the delay computed for failures - 1

boVars == <<stdioPolicy, failures, backoffMs, prevBackoffMs>>

VARIABLES
  \* ---- Sandbox Runtime: one runSandboxedCode invocation and its worker
  sbPc,          \* the returned promise: idle (not invoked), running, settled
  completed,     \* let completed
  timer,         \* timeoutHandle: unset, armed, fired, cleared
  settles,       \* number of resolve/reject calls on the promise (history)
  ignored,       \* finishWithResult/finishWithError calls that returned at the
                 \* completed guard (history)
  sbOutcome,     \* what the promise settled with
  worker,        \* the worker thread: none, starting, user (running the user
                 \* function), done, hung, terminated, exited
  awaiting,      \* the callId the user function awaits (0: none)
  toParent,      \* messages posted by the worker, not yet handled by the parent
  toWorker,      \* messages posted by the parent, not yet handled by the worker
  events,        \* 'error' and 'exit' events of the worker not yet handled
  pendingCalls,  \* the worker's pendingCalls map (its keys)
  nextCall,      \* next unused callId
  hostRun,       \* per callId: handleHostCall: none, running, answered
  hostReturn,    \* per callId: what the host function returned or threw (history)
  answers,       \* per callId: callResult/callError messages posted for it (history)
  received       \* per callId: what the worker settled the pending call with

sbVars == <<sbPc, completed, timer, settles, ignored, sbOutcome, worker, awaiting,
            toParent, toWorker, events, pendingCalls, nextCall, hostRun,
            hostReturn, answers, received>>

VARIABLES
  \* ---- Sync Service: syncAllServers runs and the interval scheduler
  interval,      \* the timer of startIntervalSync: unset, active, cleared
  runPc,         \* per syncAllServers run: idle, syncing, returned, rejected
  runIdx,        \* per run: position in its list of enabled servers
  summaries,     \* per run: the server ids of its summaries, in order
  failedLogs,    \* per run: sync.interval.failed entries logged for it
  runLog         \* per run: its syncServer calls as they start and settle,
                 \* in order (history)

schVars == <<interval, runPc, runIdx, summaries, failedLogs, runLog>>

VARIABLES
  \* ---- Gateway Server: one invocation of the search or execute handler
  gwPc,          \* idle, awaiting (runSandboxedCode pending), returned, rejected
  gwOp,          \* the tool invoked: search or execute
  gwResponse     \* what the handler's promise settled with

gwVars == <<gwPc, gwOp, gwResponse>>

VARIABLES
  \* ---- Rate limiters of the inbound HTTP listener
  rlNow,         \* Date.now() and the clock of the Redis server
  rlOptions,     \* maxRequests and windowSeconds the limiters were built with
  buckets,       \* FixedWindowRateLimiter.buckets: per key null or {count, startedAt}
  redisKeys,     \* the Redis keys of the limiter: per key null or {count, expiresAt}
  rlChecks,      \* check() calls made so far
  redisErrors,   \* client.eval calls that rejected so far
  quota,         \* per limiter and key: the window in course and the checks allowed in it (history)
  lastVerdict    \* the most recent verdict of a check (history)

rlVars == <<rlNow, rlOptions, buckets, redisKeys, rlChecks, redisErrors, quota,
            lastVerdict>>

VARIABLES
  \* ---- bootstraps against the database (serve, sync and doctor commands)
  upsertLog      \* the upsertServers calls made: list, listServers() before and after (history)

bsVars == <<upsertLog>>

VARIABLES
  \* ---- the shutdown of main (SIGINT / SIGTERM)
  shMode,        \* what main set up: extraShutdown (http), sharedRateLimiter
  shPc,          \* position of shutdown(): idle, the await it is at, done
  shLog,         \* the calls shutdown() made and the closes that failed (history)
  dbOpen         \* the catalog database is open

shVars == <<shMode, shPc, shLog, dbOpen>>

extVars == <<boVars, sbVars, schVars, gwVars, rlVars, bsVars, shVars>>

vars == <<upVars, catVars, pxVars, extVars>>

\* ------------------------------------------------------ pure functions

Min(a, b) == IF a <= b THEN a ELSE b
Max(a, b) == IF a >= b THEN a ELSE b

RECURSIVE Pow2(_)
Pow2(n) == IF n <= 0 THEN 1 ELSE 2 * Pow2(n - 1)

\* computeBackoffMs under a policy with base b and cap m
BackoffOf(b, m, consecutiveFailures) ==
  LET exp == Max(0, consecutiveFailures - 1)
      raw == b * Pow2(exp)
  IN  Min(m, raw)

computeBackoffMs(consecutiveFailures) ==
  BackoffOf(baseBackoffMs, maxBackoffMs, consecutiveFailures)

\* a loop with one attempt more (mutation of maxAttemptsOf)
maxAttemptsAndOne(transport) == IF transport = "stdio" THEN maxRetries + 2 ELSE 1

\* const maxAttempts = config.transport === "stdio" ? maxRetries + 1 : 1
maxAttemptsOf(transport) == IF transport = "stdio" THEN maxRetries + 1 ELSE 1

createInitialHealth(enabled) ==
  [enabled |-> enabled, connected |-> FALSE, totalCalls |-> 0,
   successfulCalls |-> 0, failedCalls |-> 0, consecutiveFailures |-> 0,
   restarts |-> 0, lastError |-> "null",
   \* nextRetryAtMs: whether it is set (not null), and nextRetryAtMs - Date.now()
   nextRetrySet |-> FALSE, nextRetryIn |-> 0]

\* health.nextRetryAtMs = null
clearRetry(h) == [h EXCEPT !.nextRetrySet = FALSE, !.nextRetryIn = 0]

\* fault variant of countCall: the invocation is not counted
countCallSkipped(h) == h

\* health.totalCalls += 1
countCall(h) == [h EXCEPT !.totalCalls = @ + 1]

\* fault variant of markSuccess: the failure streak is not reset
markSuccessKeepStreak(h) ==
  [h EXCEPT !.successfulCalls = @ + 1,
            !.lastError = "null", !.nextRetrySet = FALSE, !.nextRetryIn = 0]

markSuccess(h) ==
  [h EXCEPT !.successfulCalls = @ + 1, !.consecutiveFailures = 0,
            !.lastError = "null", !.nextRetrySet = FALSE, !.nextRetryIn = 0]

\* a failure that leaves the streak alone (mutation of markFailure)
markFailureKeepStreak(h) ==
  [h EXCEPT !.failedCalls = @ + 1, !.lastError = "error"]

markFailure(h) ==
  [h EXCEPT !.failedCalls = @ + 1, !.consecutiveFailures = @ + 1,
            !.lastError = "error"]

\* a connected server is never down (mutation of deriveStatus)
deriveStatusConnectedFirst(h) ==
  IF ~h.enabled THEN "disabled"
  ELSE IF h.connected
  THEN (IF h.consecutiveFailures = 0 THEN "healthy" ELSE "degraded")
  ELSE IF h.consecutiveFailures >= 3 THEN "down"
  ELSE "degraded"

\* the enabled flag looked at last (mutation of deriveStatus)
deriveStatusEnabledLast(h) ==
  IF h.connected /\ h.consecutiveFailures = 0 THEN "healthy"
  ELSE IF h.consecutiveFailures = 0 THEN "degraded"
  ELSE IF h.consecutiveFailures >= 3 THEN "down"
  ELSE IF ~h.enabled THEN "disabled"
  ELSE "degraded"

deriveStatus(h) ==
  IF ~h.enabled THEN "disabled"
  ELSE IF h.connected /\ h.consecutiveFailures = 0 THEN "healthy"
  ELSE IF h.consecutiveFailures = 0 THEN "degraded"
  ELSE IF h.consecutiveFailures >= 3 THEN "down"
  ELSE "degraded"

\* --------------------------------------------------- Upstream Manager

\* the manager as constructed for a server configured as c
UpstreamInvoked(c, n) ==
  /\ invocations = n
  /\ cfg = c
  /\ connections = 0
  /\ connecting = 0
  /\ health = createInitialHealth(cfg.enabled)
  /\ att = [a \in AttemptIds |-> "unused"]
  /\ attWake = [a \in AttemptIds |-> 0]
  /\ tr = [a \in AttemptIds |-> "none"]
  /\ oncl = [a \in AttemptIds |-> "unset"]
  /\ nextAtt = 1
  /\ pc = [p \in Calls |-> "idle"]
  /\ attemptNo = [p \in Calls |-> 0]
  /\ held = [p \in Calls |-> 0]
  /\ disposing = [p \in Calls |-> 0]
  /\ wake = [p \in Calls |-> 0]
  /\ lastDone = "none"
  /\ overlapped = FALSE
  /\ closer = "idle"
  /\ closeTarget = 0
  /\ snapshot = <<>>
  /\ deadline = [in |-> 0, early |-> FALSE]
  /\ ops = [p \in Calls |-> [attempts |-> 0, retries |-> 0, lastError |-> 0,
                             thrown |-> 0, outcome |-> "none"]]

UpstreamConstructed(c) == UpstreamInvoked(c, NumCalls)

\* waitIfBackoffActive returns without sleeping: nextRetryAtMs is null, or
\* delayMs = nextRetryAtMs - Date.now() <= 0
BackoffElapsed(h) == ~h.nextRetrySet \/ h.nextRetryIn <= 0

\* this.connecting.get(serverId) as getConnection reads it
inflightOf(c) == c

\* The synchronous part of getConnection(serverId) called by invocation p, with
\* h the health record as this segment has updated it so far.  A caller that
\* obtains a connection issues its operation next (operation(connection.client)).
GetConnectionSync(p, h) ==
  IF connections # 0
  THEN \* return existing
       /\ pc' = [pc EXCEPT ![p] = "inOp"]
       /\ held' = [held EXCEPT ![p] = connections]
       /\ health' = h
       /\ UNCHANGED <<connecting, att, attWake, tr, nextAtt, deadline>>
  ELSE IF inflightOf(connecting) # 0
  THEN \* return inflight
       /\ pc' = [pc EXCEPT ![p] = "awaitInflight"]
       /\ held' = [held EXCEPT ![p] = connecting]
       /\ health' = h
       /\ UNCHANGED <<connecting, att, attWake, tr, nextAtt, deadline>>
  ELSE \* a new attempt: the async closure runs up to its first suspension
       /\ nextAtt <= MaxAttempts
       /\ LET a == nextAtt IN
          /\ nextAtt' = a + 1
          /\ connecting' = a
          /\ pc' = [pc EXCEPT ![p] = "awaitOwn"]
          /\ held' = [held EXCEPT ![p] = a]
          /\ IF cfg.transport = "stdio" /\ ~BackoffElapsed(h)
             THEN \* await sleep(delayMs) in waitIfBackoffActive
                  /\ health' = h
                  /\ att' = [att EXCEPT ![a] = "waiting"]
                  /\ attWake' = [attWake EXCEPT ![a] = h.nextRetryIn]
                  /\ tr' = tr
                  /\ UNCHANGED deadline
             ELSE IF cfg.transport = "http" /\ cfg.tokenMissing
             THEN \* buildTransport throws: the promise is rejected at once
                  /\ health' = h
                  /\ att' = [att EXCEPT ![a] = "rejected"]
                  /\ UNCHANGED <<attWake, tr, deadline>>
             ELSE \* buildTransport, new Client, client.connect(transport)
                  /\ health' = IF cfg.transport = "stdio"
                               THEN clearRetry(h) ELSE h
                  /\ att' = [att EXCEPT ![a] = "connecting"]
                  /\ tr' = [tr EXCEPT ![a] = "connecting"]
                  /\ attWake' = attWake
                  /\ deadline' = [deadline EXCEPT !.early = @ \/ deadline.in > 0]

\* The loop body of withServerOperation up to its first suspension.
BeginAttempt(p, h) ==
  IF cfg.transport = "stdio"
  THEN \* await this.waitIfBackoffActive(serverId)
       /\ IF BackoffElapsed(h)
          THEN /\ health' = clearRetry(h)
               /\ pc' = [pc EXCEPT ![p] = "afterWait"]
               /\ wake' = [wake EXCEPT ![p] = 0]
          ELSE /\ health' = h
               /\ pc' = [pc EXCEPT ![p] = "backoffSleep"]
               /\ wake' = [wake EXCEPT ![p] = h.nextRetryIn]
       /\ UNCHANGED <<held, connecting, att, attWake, tr, nextAtt, deadline>>
  ELSE /\ GetConnectionSync(p, h)
       /\ wake' = wake

\* what disposeConnection removes from this.connections and closes
disposeTarget(c) == c

\* The catch block after disposeConnection has returned: the retry decision,
\* then either the backoff sleep begins or the operation rejects.
AfterDispose(p, h) ==
  LET shouldRetry == cfg.transport = "stdio"
                     /\ attemptNo[p] < maxAttemptsOf(cfg.transport)
      delayMs == computeBackoffMs(h.consecutiveFailures)
  IN IF shouldRetry
     THEN /\ health' = [h EXCEPT !.nextRetrySet = TRUE,
                                 !.nextRetryIn = delayMs,
                                 !.restarts = @ + 1]
          /\ pc' = [pc EXCEPT ![p] = "retrySleep"]
          /\ wake' = [wake EXCEPT ![p] = Max(1, delayMs)]
          /\ ops' = [ops EXCEPT ![p].lastError = attemptNo[p],
                                ![p].retries = @ + 1]
          /\ deadline' = [deadline EXCEPT !.in = Max(@, delayMs)]
          /\ UNCHANGED <<lastDone, attemptNo>>
     ELSE \* break; throw lastError
          /\ health' = h
          /\ pc' = [pc EXCEPT ![p] = "done"]
          /\ wake' = wake
          /\ attemptNo' = [attemptNo EXCEPT ![p] = 0]
          /\ lastDone' = "fail"
          /\ ops' = [ops EXCEPT ![p].lastError = attemptNo[p],
                                ![p].thrown = attemptNo[p],
                                ![p].outcome = "fail"]
          /\ UNCHANGED deadline

\* The catch block: markFailure, then `await this.disposeConnection(serverId)`.
\* With a registered connection the block suspends until transport.close()
\* settles; with none, disposeConnection returns at once and the block runs on.
Catch(p, h) ==
  /\ held' = [held EXCEPT ![p] = 0]
  /\ IF disposeTarget(connections) # 0
     THEN /\ health' = markFailure(h)
          /\ pc' = [pc EXCEPT ![p] = "disposing"]
          /\ disposing' = [disposing EXCEPT ![p] = disposeTarget(connections)]
          /\ connections' = 0
          /\ tr' = [tr EXCEPT ![disposeTarget(connections)] = "closed"]
          /\ ops' = [ops EXCEPT ![p].lastError = attemptNo[p]]
          /\ UNCHANGED <<wake, lastDone, attemptNo, deadline>>
     ELSE /\ AfterDispose(p, markFailure(h))
          /\ UNCHANGED <<disposing, connections, tr>>

Busy == {q \in Calls : pc[q] \notin {"idle", "done"}}

\* listTools / callTool -> withServerOperation, up to the first suspension.
\* Invocations are numbered in the order they start.
StartOp(p) ==
  /\ p <= invocations
  /\ pc[p] = "idle"
  /\ \A q \in Calls : q < p => pc[q] # "idle"
  /\ IF ~health.enabled
     THEN \* throw new Error("Server is disabled")
          /\ pc' = [pc EXCEPT ![p] = "done"]
          /\ ops' = [ops EXCEPT ![p].outcome = "disabled"]
          /\ UNCHANGED <<health, wake, held, connecting, att, attWake, tr,
                         nextAtt, attemptNo, overlapped, deadline>>
     ELSE /\ attemptNo' = [attemptNo EXCEPT ![p] = 1]
          /\ ops' = [ops EXCEPT ![p].attempts = 1]
          /\ overlapped' = (overlapped \/ Busy # {})
          /\ BeginAttempt(p, countCall(health))
  /\ UNCHANGED <<catVars, pxVars, extVars, invocations, snapshot, cfg, connections, oncl, disposing, lastDone, closer, closeTarget>>

\* the timer of waitIfBackoffActive fires in withServerOperation
BackoffWake(p) ==
  /\ pc[p] = "backoffSleep"
  /\ wake[p] = 0
  /\ health' = clearRetry(health)
  /\ pc' = [pc EXCEPT ![p] = "afterWait"]
  /\ wake' = [wake EXCEPT ![p] = 0]
  /\ UNCHANGED <<catVars, pxVars, extVars, invocations, deadline, snapshot, ops, cfg, connections, connecting, att, attWake, tr, oncl, nextAtt,
                 attemptNo, held, disposing, lastDone, overlapped,
                 closer, closeTarget>>

\* const connection = await this.getConnection(serverId)
CallGetConnection(p) ==
  /\ pc[p] = "afterWait"
  /\ GetConnectionSync(p, health)
  /\ UNCHANGED <<catVars, pxVars, extVars, invocations, snapshot, ops, cfg, connections, oncl, attemptNo, disposing, wake,
                 lastDone, overlapped, closer, closeTarget>>

\* the timer of waitIfBackoffActive fires inside the connect closure, which
\* goes on to buildTransport and client.connect
AttemptWake(a) ==
  /\ att[a] = "waiting"
  /\ attWake[a] = 0
  /\ health' = clearRetry(health)
  /\ att' = [att EXCEPT ![a] = "connecting"]
  /\ tr' = [tr EXCEPT ![a] = "connecting"]
  /\ attWake' = [attWake EXCEPT ![a] = 0]
  /\ deadline' = [deadline EXCEPT !.early = @ \/ deadline.in > 0]
  /\ UNCHANGED <<catVars, pxVars, extVars, invocations, snapshot, ops, cfg, connections, connecting, oncl, nextAtt, pc,
                 attemptNo, held, disposing, wake, lastDone, overlapped,
                 closer, closeTarget>>

\* what the connect closure registers in this.connections on success
registered(old, a) == a

\* client.connect resolves: callbacks set, connection registered
ConnectOk(a) ==
  /\ att[a] = "connecting"
  /\ att' = [att EXCEPT ![a] = "resolved"]
  /\ tr' = [tr EXCEPT ![a] = "open"]
  /\ oncl' = [oncl EXCEPT ![a] = "armed"]
  /\ connections' = registered(connections, a)
  /\ health' = [health EXCEPT !.connected = TRUE]
  /\ UNCHANGED <<catVars, pxVars, extVars, invocations, deadline, snapshot, ops, cfg, connecting, attWake, nextAtt, pc, attemptNo, held, disposing,
                 wake, lastDone, overlapped, closer, closeTarget>>

\* the transport left as it is when client.connect rejects (mutation of
\* closedAfterReject)
leftAfterReject(transport) == transport

\* await transport.close().catch(() => undefined) in the catch of client.connect
closedAfterReject(transport) == "closed"

\* client.connect rejects: await transport.close().catch(...); throw error
ConnectFail(a) ==
  /\ att[a] = "connecting"
  /\ att' = [att EXCEPT ![a] = "rejected"]
  /\ tr' = [tr EXCEPT ![a] = closedAfterReject(@)]
  /\ UNCHANGED <<catVars, pxVars, extVars, invocations, deadline, snapshot, ops, cfg, connections, connecting, health, attWake, oncl, nextAtt, pc,
                 attemptNo, held, disposing, wake, lastDone, overlapped,
                 closer, closeTarget>>

\* `return await promise` in the caller that created the attempt, with its
\* finally { this.connecting.delete(serverId) }
OwnerResume(p) ==
  /\ pc[p] = "awaitOwn"
  /\ att[held[p]] \in {"resolved", "rejected"}
  /\ connecting' = 0
  /\ IF att[held[p]] = "resolved"
     THEN /\ pc' = [pc EXCEPT ![p] = "inOp"]
          /\ UNCHANGED <<health, connections, tr, disposing, held, attemptNo,
                         wake, lastDone, ops, deadline>>
     ELSE Catch(p, health)
  /\ UNCHANGED <<catVars, pxVars, extVars, invocations, snapshot, cfg, att, attWake, oncl, nextAtt, overlapped, closer,
                 closeTarget>>

\* `return inflight` in a caller that found the attempt in this.connecting
SharerResume(p) ==
  /\ pc[p] = "awaitInflight"
  /\ att[held[p]] \in {"resolved", "rejected"}
  /\ IF att[held[p]] = "resolved"
     THEN /\ pc' = [pc EXCEPT ![p] = "inOp"]
          /\ UNCHANGED <<health, connections, tr, disposing, held, attemptNo,
                         wake, lastDone, ops, deadline>>
     ELSE Catch(p, health)
  /\ UNCHANGED <<catVars, pxVars, extVars, invocations, snapshot, cfg, connecting, att, attWake, oncl, nextAtt, overlapped,
                 closer, closeTarget>>

\* the upstream answers on the transport in use: markSuccess; return result
OpSucceed(p) ==
  /\ pc[p] = "inOp"
  /\ tr[held[p]] = "open"
  /\ health' = markSuccess(health)
  /\ pc' = [pc EXCEPT ![p] = "done"]
  /\ held' = [held EXCEPT ![p] = 0]
  /\ attemptNo' = [attemptNo EXCEPT ![p] = 0]
  /\ lastDone' = "ok"
  /\ ops' = [ops EXCEPT ![p].outcome = "ok"]
  /\ UNCHANGED <<catVars, pxVars, extVars, invocations, deadline, snapshot, cfg, connections, connecting, att, attWake, tr, oncl, nextAtt,
                 disposing, wake, overlapped, closer, closeTarget>>

\* the operation rejects (upstream error, closed transport, protocol error)
OpFail(p) ==
  /\ pc[p] = "inOp"
  /\ Catch(p, health)
  /\ UNCHANGED <<catVars, pxVars, extVars, invocations, snapshot, cfg, connecting, att, attWake, oncl, nextAtt, overlapped,
                 closer, closeTarget>>

\* transport.close() settles in disposeConnection: health.connected = false;
\* the catch block runs on
DisposeDone(p) ==
  /\ pc[p] = "disposing"
  /\ AfterDispose(p, [health EXCEPT !.connected = FALSE])
  /\ disposing' = [disposing EXCEPT ![p] = 0]
  /\ UNCHANGED <<catVars, pxVars, extVars, invocations, snapshot, cfg, connections, connecting, att, attWake, tr, oncl, nextAtt,
                 held, overlapped, closer, closeTarget>>

\* await sleep(delayMs) ends: the next iteration of the retry loop
RetryWake(p) ==
  /\ pc[p] = "retrySleep"
  /\ wake[p] = 0
  /\ attemptNo' = [attemptNo EXCEPT ![p] = @ + 1]
  /\ ops' = [ops EXCEPT ![p].attempts = @ + 1]
  /\ BeginAttempt(p, health)
  /\ UNCHANGED <<catVars, pxVars, extVars, invocations, snapshot, cfg, connections, oncl, disposing, lastDone, overlapped,
                 closer, closeTarget>>

\* transport.onclose: fires once, after the transport was closed or when the
\* peer goes away
OnClose(a) ==
  /\ oncl[a] = "armed"
  /\ tr[a] \in {"open", "closed"}
  /\ oncl' = [oncl EXCEPT ![a] = "fired"]
  /\ tr' = [tr EXCEPT ![a] = "closed"]
  /\ connections' = 0
  /\ health' = [health EXCEPT !.connected = FALSE]
  /\ UNCHANGED <<catVars, pxVars, extVars, invocations, deadline, snapshot, ops, cfg, connecting, att, attWake, nextAtt, pc, attemptNo, held,
                 disposing, wake, lastDone, overlapped, closer, closeTarget>>

\* transport.onerror
OnError(a) ==
  /\ oncl[a] = "armed"
  /\ tr[a] = "open"
  /\ health' = [health EXCEPT !.lastError = "error"]
  /\ UNCHANGED <<catVars, pxVars, extVars, invocations, deadline, snapshot, ops, cfg, connections, connecting, att, attWake, tr, oncl, nextAtt, pc,
                 attemptNo, held, disposing, wake, lastDone, overlapped,
                 closer, closeTarget>>

\* closeAll up to `await Promise.allSettled(shutdownTasks)`
closeAllCalled ==
  /\ closer = "idle"
  /\ closer' = "settling"
  /\ closeTarget' = connections
  /\ connections' = 0
  /\ tr' = IF connections # 0 THEN [tr EXCEPT ![connections] = "closed"] ELSE tr
  /\ UNCHANGED <<catVars, pxVars, invocations, deadline, snapshot, ops, cfg, connecting, health, att, attWake, oncl, nextAtt, pc,
                 attemptNo, held, disposing, wake, lastDone, overlapped>>

CloseAllStart == closeAllCalled /\ UNCHANGED extVars

\* this.connecting after closeAll's this.connecting.clear()
cleared(c) == 0

\* the disposals settle; this.connecting.clear()
closeAllSettled ==
  /\ closer = "settling"
  /\ closer' = "returned"
  /\ health' = IF closeTarget # 0 THEN [health EXCEPT !.connected = FALSE]
               ELSE health
  /\ connecting' = cleared(connecting)
  /\ closeTarget' = 0
  /\ UNCHANGED <<catVars, pxVars, invocations, deadline, snapshot, ops, cfg, connections, att, attWake, tr, oncl, nextAtt, pc, attemptNo,
                 held, disposing, wake, lastDone, overlapped>>

CloseAllFinish == closeAllSettled /\ UNCHANGED extVars

\* mapHealthState(state)
mapHealthState(state) ==
  [enabled |-> state.enabled, status |-> deriveStatus(state),
   connected |-> state.connected, totalCalls |-> state.totalCalls,
   successfulCalls |-> state.successfulCalls, failedCalls |-> state.failedCalls,
   consecutiveFailures |-> state.consecutiveFailures,
   restarts |-> state.restarts, lastError |-> state.lastError]

\* getHealthSnapshot()
GetHealthSnapshot ==
  /\ snapshot' = <<mapHealthState(health)>>
  /\ UNCHANGED <<catVars, pxVars, extVars, invocations, deadline, ops, cfg, connections, connecting, health,
                 att, attWake, tr, oncl, nextAtt, pc, attemptNo, held, disposing,
                 wake, lastDone, overlapped, closer, closeTarget>>

\* One unit of time passes: every deadline still ahead comes one unit closer.
\* When none is ahead the passage of time changes nothing the code reads.
DeadlinePending ==
  \/ health.nextRetryIn > 0
  \/ \E p \in Calls : wake[p] > 0
  \/ \E a \in AttemptIds : attWake[a] > 0

Tick ==
  /\ DeadlinePending
  /\ health' = [health EXCEPT !.nextRetryIn = Max(0, @ - 1)]
  /\ wake' = [p \in Calls |-> Max(0, wake[p] - 1)]
  /\ attWake' = [a \in AttemptIds |-> Max(0, attWake[a] - 1)]
  /\ deadline' = [deadline EXCEPT !.in = Max(0, @ - 1)]
  /\ UNCHANGED <<catVars, pxVars, extVars, invocations, snapshot, ops, cfg, connections, connecting, att, tr, oncl,
                 nextAtt, pc, attemptNo, held, disposing, lastDone,
                 overlapped, closer, closeTarget>>

NextUpstream ==
  \/ \E p \in Calls :
       \/ StartOp(p)
       \/ BackoffWake(p)
       \/ CallGetConnection(p)
       \/ OwnerResume(p)
       \/ SharerResume(p)
       \/ OpSucceed(p)
       \/ OpFail(p)
       \/ DisposeDone(p)
       \/ RetryWake(p)
  \/ \E a \in AttemptIds :
       \/ AttemptWake(a)
       \/ ConnectOk(a)
       \/ ConnectFail(a)
       \/ OnClose(a)
       \/ OnError(a)
  \/ CloseAllStart
  \/ CloseAllFinish
  \/ Tick

\* ------------------------------------------------------ values
\* JavaScript null / undefined, and a value that is present
null == <<>>
Some(x) == <<x>>

\* Strings the code inspects character by character (tool names, allow-list
\* patterns, titles, search text) are sequences of one-character strings.
CharCode(c) ==
  CASE c = " " -> 32 [] c = "*" -> 42 [] c = "T" -> 84
    [] c = "a" -> 97 [] c = "b" -> 98 [] c = "t" -> 116

toLowerCase(str) == [i \in DOMAIN str |-> IF str[i] = "T" THEN "t" ELSE str[i]]

\* str < other in the byte order SQLite sorts TEXT by
RECURSIVE StrLess(_, _)
StrLess(str, other) ==
  IF str = <<>> THEN other # <<>>
  ELSE IF other = <<>> THEN FALSE
  ELSE IF Head(str) = Head(other) THEN StrLess(Tail(str), Tail(other))
  ELSE CharCode(Head(str)) < CharCode(Head(other))

startsWith(str, prefix) ==
  Len(prefix) <= Len(str) /\ SubSeq(str, 1, Len(prefix)) = prefix

endsWith(str, suffix) ==
  Len(suffix) <= Len(str)
  /\ SubSeq(str, Len(str) - Len(suffix) + 1, Len(str)) = suffix

\* String.prototype.trim for strings whose only white space is " "
RECURSIVE trimStart(_)
trimStart(str) ==
  IF str # <<>> /\ Head(str) = " " THEN trimStart(Tail(str)) ELSE str

RECURSIVE trimEnd(_)
trimEnd(str) ==
  IF str # <<>> /\ str[Len(str)] = " "
  THEN trimEnd(SubSeq(str, 1, Len(str) - 1)) ELSE str

trim(str) == trimEnd(trimStart(str))

\* text LIKE '%' || pattern || '%' for a pattern without % and _
Like(text, pattern) ==
  \E i \in 0..(Len(text) - Len(pattern)) :
     SubSeq(text, i + 1, i + Len(pattern)) = pattern

\* ------------------------------------------------------ universes
ServerIds == {"s1", "s2"}
UnknownServerId == "zz"
Hashes == {"h1", "h2"}
ToolNames == {<<"a", "b">>, <<"b">>}
\* A tool's title is absent, "" or "T"; its input schema accepts any
\* arguments ("open") or only the arguments called "good" ("strict").
\* The tools an upstream may list: where the titles matter (the catalog) ...
TitledTools ==
  {[name |-> n, title |-> t, inputSchema |-> "open"] :
     n \in ToolNames, t \in {null, Some(<<>>), Some(<<"T">>)}}
\* ... and where the schemas matter (the proxy)
SchemaTools ==
  {[name |-> n, title |-> null, inputSchema |-> i] :
     n \in ToolNames, i \in {"open", "strict"}}
\* the answers an upstream may give to tools/list
ListsOf(upstreamTools) == UNION {[1..n -> upstreamTools] : n \in 0..MaxTools}
AllowLists == {<< <<"*">> >>, << <<"a", "*">> >>, << <<"b">> >>}
\* input.arguments: an object the strict schema accepts, one it rejects, or
\* undefined ("absent")
Arguments == {"good", "bad", "absent"}

\* new Date().toISOString() of a snapshot payload: the syncs of a behaviour
\* that fetch the same answer do it at the same time, so that the number of
\* snapshot rows stays small
FetchedAt == {"t1"}

\* JSON.stringify of a tool name and of a tools/list answer, as far as the
\* answers here differ: names and input schemas
RECURSIVE stringifyName(_)
stringifyName(name) ==
  IF name = <<>> THEN "" ELSE Head(name) \o stringifyName(Tail(name))

RECURSIVE stringifyTools(_)
stringifyTools(list) ==
  IF list = <<>> THEN ""
  ELSE stringifyName(Head(list).name) \o ":" \o Head(list).inputSchema \o ";"
       \o stringifyTools(Tail(list))

\* hashPayload(JSON.stringify({ fetchedAt, server, tools })): a digest that
\* differs whenever the payload differs (sha256; collisions are left out)
hashPayload(fetchedAt, serverId, list) ==
  fetchedAt \o "/" \o serverId \o "/" \o stringifyTools(list)

\* id order of ORDER BY id / server_id
IdRank(id) == CASE id = "s1" -> 1 [] id = "s2" -> 2 [] OTHER -> 3

\* ------------------------------------------------------ Sync Service

\* the strings normalizeTools joins into searchableText; the description and
\* the JSON texts of the schemas are the same for every tool here and left out
searchableTextOf(name, title) ==
  LET parts == IF title # null /\ Len(title[1]) > 0
               THEN <<name, title[1]>> ELSE <<name>>
  IN toLowerCase(IF Len(parts) = 2 THEN parts[1] \o <<" ">> \o parts[2]
                 ELSE parts[1])

normalizeTools(server, list, snapshotHash) ==
  [i \in DOMAIN list |->
     [serverId |-> server.id,
      toolName |-> list[i].name,
      title |-> list[i].title,
      inputSchema |-> list[i].inputSchema,
      searchableText |-> searchableTextOf(list[i].name, list[i].title),
      snapshotHash |-> snapshotHash]]

\* ------------------------------------------------------ Catalog Store

\* the database as one value
DB == [servers |-> servers, tools |-> tools, snapshots |-> snapshots]

\* INSERT OR REPLACE: an existing row is replaced whole (mutation of upsertRow)
replaceRow(rows, server) ==
  {r \in rows : r.id # server.id}
    \cup {[id |-> server.id, enabled |-> server.enabled,
            allowTools |-> server.allowTools, lastSynced |-> FALSE]}

upsertRow(rows, server) ==
  IF \E r \in rows : r.id = server.id
  THEN {IF r.id = server.id
        THEN [r EXCEPT !.enabled = server.enabled,
                       !.allowTools = server.allowTools]
        ELSE r : r \in rows}
  ELSE rows \cup {[id |-> server.id, enabled |-> server.enabled,
                   allowTools |-> server.allowTools, lastSynced |-> FALSE]}

RECURSIVE upsertFrom(_, _, _)
upsertFrom(rows, list, i) ==
  IF i > Len(list) THEN rows
  ELSE upsertFrom(upsertRow(rows, list[i]), list, i + 1)

upsertServers(rows, list) == upsertFrom(rows, list, 1)

\* fault variant of deleteServerTools: nothing is deleted
deleteNothing(rows, serverId) == rows

\* DELETE FROM tools WHERE server_id = ?
deleteServerTools(rows, serverId) == {r \in rows : r.serverId # serverId}

\* the row insertToolStatement.run writes
toolRow(tool, snapshotHash) ==
  [serverId |-> tool.serverId, toolName |-> tool.toolName,
   title |-> tool.title, inputSchema |-> tool.inputSchema,
   searchableText |-> tool.searchableText, snapshotHash |-> snapshotHash]

\* UNIQUE(server_id, tool_name)
violatesUnique(rows, row) ==
  \E r \in rows : r.serverId = row.serverId /\ r.toolName = row.toolName

\* the loop of inserts; the first insert that violates the constraint throws
RECURSIVE insertTools(_, _, _, _)
insertTools(rows, list, i, snapshotHash) ==
  IF i > Len(list) THEN [threw |-> FALSE, rows |-> rows]
  ELSE IF violatesUnique(rows, toolRow(list[i], snapshotHash))
  THEN [threw |-> TRUE, rows |-> rows]
  ELSE insertTools(rows \cup {toolRow(list[i], snapshotHash)}, list, i + 1,
                   snapshotHash)

\* fault variant of insertSnapshot: no snapshot row is written
insertSnapshotSkipped(snaps, serverId, snapshotHash) == snaps

\* INSERT OR IGNORE INTO snapshots under UNIQUE(server_id, snapshot_hash)
insertSnapshot(snaps, serverId, snapshotHash) ==
  IF \E i \in DOMAIN snaps : /\ snaps[i].serverId = serverId
                             /\ snaps[i].snapshotHash = snapshotHash
  THEN snaps
  ELSE Append(snaps, [serverId |-> serverId, snapshotHash |-> snapshotHash])

\* UPDATE servers SET last_synced_at = CURRENT_TIMESTAMP WHERE id = ?
markSynced(rows, serverId) ==
  {IF r.id = serverId THEN [r EXCEPT !.lastSynced = TRUE] ELSE r : r \in rows}

\* fault variant of rollback: the statements already run stay in effect
rollbackSkipped(before, partial) == partial

\* fault variant of rollback: the inserts are undone, the DELETE is not
rollbackInserts(before, partial) ==
  [before EXCEPT !.tools = before.tools \cap partial.tools]

\* what db.transaction leaves when its function throws
rollback(before, partial) == before

\* replaceServerTools(serverId, snapshotHash, snapshotPath, tools) on
\* database db: whether it threw, and the database it leaves
replaceServerTools(db, serverId, snapshotHash, list) ==
  LET ins == insertTools(deleteServerTools(db.tools, serverId), list, 1,
                         snapshotHash)
  IN IF ins.threw
     THEN [threw |-> TRUE,
           db |-> rollback(db, [db EXCEPT !.tools = ins.rows])]
     ELSE [threw |-> FALSE,
           db |-> [servers |-> markSynced(db.servers, serverId),
                   tools |-> ins.rows,
                   snapshots |-> insertSnapshot(db.snapshots, serverId,
                                                snapshotHash)]]

mapToolRecord(row) ==
  [serverId |-> row.serverId, toolName |-> row.toolName,
   \* row.title ? String(row.title) : null
   title |-> IF row.title = null \/ row.title = Some(<<>>) THEN null
             ELSE row.title,
   inputSchema |-> row.inputSchema, snapshotHash |-> row.snapshotHash]

\* fault variant of getTool: the lookup is by tool name alone
getToolOfAnyServer(rows, serverId, toolName) ==
  LET found == {r \in rows : r.toolName = toolName}
  IN IF found = {} THEN null ELSE Some(mapToolRecord(CHOOSE r \in found : TRUE))

getTool(rows, serverId, toolName) ==
  LET found == {r \in rows : r.serverId = serverId /\ r.toolName = toolName}
  IN IF found = {} THEN null ELSE Some(mapToolRecord(CHOOSE r \in found : TRUE))

clampLimit(value) ==
  \* !value: undefined and 0
  IF value = null \/ value = Some(0) THEN 30
  ELSE Max(1, Min(100, value[1]))

\* ORDER BY server_id ASC, tool_name ASC
RowLess(r, o) ==
  \/ IdRank(r.serverId) < IdRank(o.serverId)
  \/ r.serverId = o.serverId /\ StrLess(r.toolName, o.toolName)

RECURSIVE OrderRows(_)
OrderRows(rows) ==
  IF rows = {} THEN <<>>
  ELSE LET first == CHOOSE r \in rows : \A o \in rows \ {r} : RowLess(r, o)
       IN <<first>> \o OrderRows(rows \ {first})

searchTools(rows, query) ==
  LET safeLimit == clampLimit(query.limit)
      ofServer == {r \in rows : query.serverId = null
                                  \/ r.serverId = query.serverId[1]}
      matching == IF query.query = null \/ Len(trim(query.query[1])) = 0
                  THEN ofServer
                  ELSE {r \in ofServer :
                          Like(r.searchableText, toLowerCase(query.query[1]))}
      ordered == OrderRows(matching)
  IN [i \in 1..Min(safeLimit, Len(ordered)) |-> mapToolRecord(ordered[i])]

\* the queries searchTools is called with
Limits == {null, Some(-1), Some(0), Some(1), Some(101)}
Queries ==
  [query : {null, Some(<<"T">>)}, serverId : {null, Some("s1")}, limit : Limits]

EmptyDB == [servers |-> {}, tools |-> {}, snapshots |-> <<>>]

Range(list) == {list[i] : i \in DOMAIN list}

\* The process starts on database db with configured servers c: upsertServers.
\* recorded: whether the outcome of throwing replaceServerTools calls is kept.
CatalogOpened(c, db, committed, recorded) ==
  /\ configs = c
  /\ servers = upsertServers(db.servers, c)
  /\ tools = db.tools
  /\ snapshots = db.snapshots
  /\ syncing = [id \in ServerIds |-> 0]
  /\ lastCommitted = committed
  /\ searched = null
  /\ lastThrown = [on |-> recorded, call |-> null]

CatalogBootstrapped(c, db, committed) == CatalogOpened(c, db, committed, FALSE)

configOf(serverId) == CHOOSE i \in DOMAIN configs : configs[i].id = serverId

\* The state after a replaceServerTools(serverId, snapshotHash, _, list) call
\* whose outcome is res.
Replaced(serverId, snapshotHash, list, res) ==
  /\ servers' = res.db.servers
  /\ tools' = res.db.tools
  /\ snapshots' = res.db.snapshots
  /\ searched' = IF res.threw THEN searched ELSE null
  /\ lastThrown' =
       IF ~lastThrown.on THEN lastThrown
       ELSE [lastThrown EXCEPT !.call =
               IF res.threw THEN Some([serverId |-> serverId, before |-> DB,
                                       after |-> res.db])
               ELSE null]
  /\ lastCommitted' =
       IF res.threw THEN lastCommitted
       ELSE [lastCommitted EXCEPT ![serverId] =
               Some([snapshotHash |-> snapshotHash, tools |-> Range(list)])]

SyncsInFlight == syncing["s1"] + syncing["s2"]

\* syncServer(server) up to `await this.upstream.listTools(server.id)`;
\* syncAllServers starts it for enabled servers
SyncStart(serverId) ==
  /\ SyncsInFlight < NumSyncs
  /\ configs[configOf(serverId)].enabled
  /\ syncing' = [syncing EXCEPT ![serverId] = @ + 1]
  /\ UNCHANGED <<configs, servers, tools, snapshots, lastCommitted, lastThrown, searched,
                 upVars, extVars, pxVars>>

\* listTools resolves with list: hash, normalizeTools, replaceServerTools
SyncFinish(serverId, list, snapshotHash) ==
  /\ syncing[serverId] > 0
  /\ LET normalizedTools == normalizeTools(configs[configOf(serverId)], list,
                                           snapshotHash)
     IN \E res \in {replaceServerTools(DB, serverId, snapshotHash,
                                       normalizedTools)} :
          Replaced(serverId, snapshotHash, normalizedTools, res)
  /\ syncing' = [syncing EXCEPT ![serverId] = @ - 1]
  /\ UNCHANGED <<configs, upVars, extVars, pxVars>>

\* listTools rejects: syncServer rejects
SyncFail(serverId) ==
  /\ syncing[serverId] > 0
  /\ syncing' = [syncing EXCEPT ![serverId] = @ - 1]
  /\ UNCHANGED <<configs, servers, tools, snapshots, lastCommitted, lastThrown, searched,
                 upVars, extVars, pxVars>>

\* a searchTools call
Search(query) ==
  /\ searched' = Some([query |-> query, result |-> searchTools(tools, query)])
  /\ UNCHANGED <<configs, servers, tools, snapshots, syncing, lastCommitted, lastThrown,
                 upVars, extVars, pxVars>>

\* ------------------------------------------------------ Tool Proxy

\* fault variant of isToolAllowed: every name passes
isToolAllowedAlways(name, allowList) == TRUE

isToolAllowed(name, allowList) ==
  IF \E i \in DOMAIN allowList : allowList[i] = <<"*">> THEN TRUE
  ELSE \E i \in DOMAIN allowList :
         \/ allowList[i] = name
         \/ /\ endsWith(allowList[i], <<"*">>)
            /\ startsWith(name, SubSeq(allowList[i], 1, Len(allowList[i]) - 1))

\* what a validator compiled from schema answers for args
accepts(schema, args) == schema = "open" \/ args = "good"

\* a cache key without the snapshot hash (mutation of keyOf)
keyOfWithoutHash(tool) ==
  [serverId |-> tool.serverId, toolName |-> tool.toolName, snapshotHash |-> ""]

keyOf(tool) ==
  [serverId |-> tool.serverId, toolName |-> tool.toolName,
   snapshotHash |-> tool.snapshotHash]

\* ToolInputValidator.validate(tool, args) under cache: whether it returns
\* (valid) or throws, and the cache it leaves
validate(cache, tool, args) ==
  LET cached == {e \in cache : e.key = keyOf(tool)}
      schema == IF cached # {} THEN (CHOOSE e \in cached : TRUE).schema
                ELSE tool.inputSchema
  IN [valid |-> accepts(schema, args),
      compiledFrom |-> schema,
      cache |-> IF cached # {} THEN cache
                ELSE cache \cup {[key |-> keyOf(tool),
                                  schema |-> tool.inputSchema]}]

ProxyInputs ==
  [serverId : ServerIds \cup {UnknownServerId}, name : ToolNames,
   arguments : Arguments]

ProxyConstructed(r) ==
  /\ hasRefresh = r
  /\ validatorByKey = {}
  /\ pxPc = [c \in ProxyCalls |-> "idle"]
  /\ pxIn = [c \in ProxyCalls |-> null]
  /\ pxKnown = [c \in ProxyCalls |-> null]
  /\ pxOut = [c \in ProxyCalls |-> "none"]
  /\ dispatch = null
  /\ forwarded = [c \in ProxyCalls |-> <<>>]
  /\ trail = [c \in ProxyCalls |-> <<>>]

\* ---- what a call did, kept in trail
Event(e) == [ev |-> e, compiledFrom |-> "", inputSchema |-> ""]

\* store.getTool answered knownTool; a record found is validated at once
lookupTrail(dbTools, input) ==
  LET knownTool == getTool(dbTools, input.serverId, input.name) IN
  IF knownTool = null THEN <<Event("miss")>>
  ELSE <<Event("hit"),
         [ev |-> "validate",
          compiledFrom |-> validate(validatorByKey, knownTool[1],
                                    input.arguments).compiledFrom,
          inputSchema |-> knownTool[1].inputSchema]>>

\* the call got past the checks of server and allow-list to the lookup
admitted(input) ==
  \E r \in servers : /\ r.id = input.serverId
                      /\ r.enabled
                      /\ isToolAllowed(input.name, r.allowTools)

\* seen is added to the trail of c, and "refresh" when the step ends at
\* `await this.refreshServer(...)`
logged(c, seen) ==
  trail' = [trail EXCEPT ![c] =
              @ \o seen \o (IF pxPc'[c] \in {"refreshMiss", "refreshInvalid"}
                               THEN <<Event("refresh")>> ELSE <<>>)]

\* the call resolves where it should reject (mutation of Reject)
ResolveInstead(c, error) ==
  /\ pxPc' = [pxPc EXCEPT ![c] = "done"]
  /\ pxOut' = [pxOut EXCEPT ![c] = "result"]
  /\ pxIn' = [pxIn EXCEPT ![c] = null]
  /\ pxKnown' = [pxKnown EXCEPT ![c] = null]

\* the call rejects with error; its locals are gone
Reject(c, error) ==
  /\ pxPc' = [pxPc EXCEPT ![c] = "done"]
  /\ pxOut' = [pxOut EXCEPT ![c] = error]
  /\ pxIn' = [pxIn EXCEPT ![c] = null]
  /\ pxKnown' = [pxKnown EXCEPT ![c] = null]

\* the first validation of knownTool = tool, in validateInputWithRefresh
FirstValidation(c, input, tool) ==
  LET v == validate(validatorByKey, tool, input.arguments) IN
  /\ validatorByKey' = v.cache
  /\ IF v.valid
     THEN \* return; the caller's await resumes later
          /\ pxPc' = [pxPc EXCEPT ![c] = "validated"]
          /\ pxIn' = [pxIn EXCEPT ![c] = Some(input)]
          /\ pxKnown' = [pxKnown EXCEPT ![c] = Some(tool)]
          /\ pxOut' = pxOut
     ELSE IF ~hasRefresh THEN Reject(c, "validationFailed")
     ELSE \* await this.refreshServer(knownTool.serverId)
          /\ pxPc' = [pxPc EXCEPT ![c] = "refreshInvalid"]
          /\ pxIn' = [pxIn EXCEPT ![c] = Some(input)]
          /\ pxKnown' = [pxKnown EXCEPT ![c] = Some(tool)]
          /\ pxOut' = pxOut

\* ToolProxy.call(input) up to its first suspension
ProxyStart(c, input) ==
  /\ pxPc[c] = "idle"
  /\ \A d \in ProxyCalls : d < c => pxPc[d] # "idle"
  /\ LET found == {r \in servers : r.id = input.serverId} IN
     IF found = {}
     THEN Reject(c, "unknownServer") /\ UNCHANGED validatorByKey
     ELSE LET server == CHOOSE r \in found : TRUE IN
       IF ~server.enabled
       THEN Reject(c, "disabled") /\ UNCHANGED validatorByKey
       ELSE IF ~isToolAllowed(input.name, server.allowTools)
       THEN Reject(c, "blocked") /\ UNCHANGED validatorByKey
       ELSE LET knownTool == getTool(tools, input.serverId, input.name) IN
         IF knownTool = null
         THEN /\ IF hasRefresh
                 THEN \* await this.refreshServer(input.serverId)
                      /\ pxPc' = [pxPc EXCEPT ![c] = "refreshMiss"]
                      /\ pxIn' = [pxIn EXCEPT ![c] = Some(input)]
                      /\ UNCHANGED <<pxOut, pxKnown>>
                 ELSE Reject(c, "notFound")
              /\ UNCHANGED validatorByKey
         ELSE FirstValidation(c, input, knownTool[1])
  /\ logged(c, IF admitted(input) THEN lookupTrail(tools, input) ELSE <<>>)
  /\ UNCHANGED <<hasRefresh, dispatch, forwarded, catVars, upVars, extVars>>

\* refreshServer after a miss: the targeted syncServer's listTools resolves
\* with list; replaceServerTools; the tool is looked up again
RefreshAfterMiss(c, list, snapshotHash) ==
  /\ pxPc[c] = "refreshMiss"
  /\ LET input == pxIn[c][1]
         normalizedTools == normalizeTools(configs[configOf(input.serverId)],
                                           list, snapshotHash)
     IN \E res \in {replaceServerTools(DB, input.serverId, snapshotHash,
                                       normalizedTools)} :
        LET knownTool == getTool(res.db.tools, input.serverId, input.name) IN
        /\ Replaced(input.serverId, snapshotHash, normalizedTools, res)
        /\ IF res.threw
           THEN Reject(c, "refreshFailed") /\ UNCHANGED validatorByKey
           ELSE IF knownTool = null
           THEN Reject(c, "notFound") /\ UNCHANGED validatorByKey
           ELSE FirstValidation(c, input, knownTool[1])
        /\ logged(c, IF res.threw THEN <<>>
                     ELSE lookupTrail(res.db.tools, input))
  /\ UNCHANGED <<hasRefresh, dispatch, forwarded, configs, syncing, upVars, extVars>>

\* refreshServer after a failed validation: as above, then the refreshed
\* record is validated
RefreshAfterInvalid(c, list, snapshotHash) ==
  /\ pxPc[c] = "refreshInvalid"
  /\ LET input == pxIn[c][1]
         normalizedTools == normalizeTools(configs[configOf(input.serverId)],
                                           list, snapshotHash)
     IN \E res \in {replaceServerTools(DB, input.serverId, snapshotHash,
                                       normalizedTools)} :
        LET refreshedTool == getTool(res.db.tools, input.serverId, input.name) IN
        /\ Replaced(input.serverId, snapshotHash, normalizedTools, res)
        /\ IF res.threw
           THEN Reject(c, "refreshFailedInvalid") /\ UNCHANGED validatorByKey
           ELSE IF refreshedTool = null
           THEN \* throw firstError
                Reject(c, "validationFailed") /\ UNCHANGED validatorByKey
           ELSE LET v == validate(validatorByKey, refreshedTool[1],
                                  input.arguments) IN
                /\ validatorByKey' = v.cache
                /\ IF v.valid
                   THEN /\ pxPc' = [pxPc EXCEPT ![c] = "validated"]
                        /\ UNCHANGED <<pxIn, pxKnown, pxOut>>
                   ELSE Reject(c, "validationFailedAgain")
        /\ logged(c, IF res.threw THEN <<>>
                     ELSE lookupTrail(res.db.tools, input))
  /\ UNCHANGED <<hasRefresh, dispatch, forwarded, configs, syncing, upVars, extVars>>

\* the refresh hook rejects (listTools failed): the call rejects with it
RefreshReject(c) ==
  /\ pxPc[c] \in {"refreshMiss", "refreshInvalid"}
  /\ Reject(c, IF pxPc[c] = "refreshInvalid" THEN "refreshFailedInvalid"
               ELSE "refreshFailed")
  /\ UNCHANGED <<hasRefresh, validatorByKey, dispatch, forwarded, trail, catVars, upVars, extVars>>

\* the parameters of upstream.callTool without the arguments (mutation of
\* callToolParams)
callToolParamsWithoutArguments(input) ==
  [serverId |-> input.serverId, name |-> input.name, arguments |-> null]

\* { serverId, name, ...(input.arguments ? { arguments: input.arguments } : {}) }
callToolParams(input) ==
  [serverId |-> input.serverId, name |-> input.name,
   arguments |-> IF input.arguments = "absent" THEN null
                 ELSE Some(input.arguments)]

\* what upstream.callTool settles with: a result or a rejection
UpstreamOutcomes == {"result", "upstreamError"}

\* `await this.validateInputWithRefresh(...)` resumes:
\* return this.upstream.callTool({ serverId, name, arguments })
Dispatch(c) ==
  /\ pxPc[c] = "validated"
  /\ pxPc' = [pxPc EXCEPT ![c] = "calling"]
  /\ dispatch' = Some([serverId |-> callToolParams(pxIn[c][1]).serverId,
                       name |-> callToolParams(pxIn[c][1]).name,
                       arguments |-> callToolParams(pxIn[c][1]).arguments,
                       inCatalog |-> \E r \in tools :
                                        /\ r.serverId = pxIn[c][1].serverId
                                        /\ r.toolName = pxIn[c][1].name,
                       known |-> pxKnown[c]])
  /\ forwarded' = [forwarded EXCEPT ![c] =
                     Append(@, [params |-> callToolParams(pxIn[c][1]),
                                returned |-> null])]
  /\ UNCHANGED <<hasRefresh, validatorByKey, pxIn, pxKnown, pxOut, trail,
                 catVars, upVars, extVars>>

\* upstream.callTool settles and the call settles with it
Settle(c, outcome) ==
  /\ pxPc[c] = "calling"
  /\ pxPc' = [pxPc EXCEPT ![c] = "done"]
  /\ pxOut' = [pxOut EXCEPT ![c] = outcome]
  /\ pxIn' = [pxIn EXCEPT ![c] = null]
  /\ pxKnown' = [pxKnown EXCEPT ![c] = null]
  /\ forwarded' = [forwarded EXCEPT ![c] =
                     [i \in 1..Len(forwarded[c]) |->
                        IF i = Len(forwarded[c])
                        THEN [forwarded[c][i] EXCEPT !.returned = Some(outcome)]
                        ELSE forwarded[c][i]]]
  /\ UNCHANGED <<hasRefresh, validatorByKey, dispatch, trail, catVars, upVars, extVars>>

\* ------------------------------------------- retry policy and backoff
\* Durations of this section are in tenths of a millisecond, so that policies
\* with a fractional number of milliseconds and Math.trunc are represented.

\* consecutiveFailures values the delay is computed for
MaxFailures == 8

\* Math.trunc of a non-negative duration
trunc(x) == (x \div 10) * 10

\* options?.stdio of the constructor; a field is null when it is not given
StdioOptions ==
  [maxRetries : {null, Some(-1), Some(0), Some(2)},
   baseBackoffMs : {null, Some(100), Some(255), Some(3000), Some(50005)},
   maxBackoffMs : {null, Some(200), Some(2505), Some(10000)}]

NoStdioOptions == [maxRetries |-> null, baseBackoffMs |-> null, maxBackoffMs |-> null]

\* value ?? fallback
orElse(option, fallback) == IF option = null THEN fallback ELSE option[1]

\* this.stdioPolicy = { maxRetries: Math.max(0, ... ?? 3), ... }
stdioPolicyOf(options) ==
  [maxRetries    |-> Max(0, orElse(options.maxRetries, 3)),
   baseBackoffMs |-> Max(250, orElse(options.baseBackoffMs, 2500)),
   maxBackoffMs  |-> Max(2500, orElse(options.maxBackoffMs, 40000))]

\* computeBackoffMs without the cap (mutation of computeBackoffUnder)
computeBackoffUncapped(policy, consecutiveFailures) ==
  trunc(policy.baseBackoffMs * Pow2(Max(0, consecutiveFailures - 1)))

\* computeBackoffMs of a manager whose stdioPolicy is policy
computeBackoffUnder(policy, consecutiveFailures) ==
  LET exp == Max(0, consecutiveFailures - 1)
      raw == policy.baseBackoffMs * Pow2(exp)
  IN  Min(policy.maxBackoffMs, trunc(raw))

PolicyConstructed(options) ==
  /\ stdioPolicy = stdioPolicyOf(options)
  /\ failures = 0
  /\ backoffMs = computeBackoffUnder(stdioPolicyOf(options), 0)
  /\ prevBackoffMs = computeBackoffUnder(stdioPolicyOf(options), 0)

\* the delay for the next value of consecutiveFailures
ComputeBackoff ==
  /\ failures < MaxFailures
  /\ failures' = failures + 1
  /\ prevBackoffMs' = backoffMs
  /\ backoffMs' = computeBackoffUnder(stdioPolicy, failures + 1)
  /\ UNCHANGED <<stdioPolicy, upVars, catVars, pxVars, sbVars, schVars, gwVars, rlVars, bsVars, shVars>>


\* ----------------------------------------------------- Sandbox Runtime
\* src/src/sandbox.ts (parent) and src/src/sandbox-worker.ts (worker).  The
\* parent's handlers run on the gateway's event loop, the worker's on its own
\* thread; the two exchange messages over a port that keeps their order.

\* host calls the user function makes in one invocation
NumHostCalls == 2
CallIds == 1..NumHostCalls

\* options.code after trim(): empty, longer than maxCodeLength, or accepted
Codes == {"empty", "tooLong", "ok"}

\* fnIds the worker's proxies carry: "f" is a function of options.globals, "g"
\* is a token found in the globals' data for which no function is registered
FnIds == {"f", "g"}
functionRegistry == {"f"}

\* What a host function does: it returns a JSON value, returns undefined,
\* returns an object nested deeper than 8 levels, returns an object that
\* contains itself, or throws.
HostOutcomes == {"json", "undefined", "deep", "circular", "throws"}

\* cloneSafe(value): [threw, value].  A value nested 8 levels or more is cut to
\* "[max_depth_reached]", undefined becomes the string "undefined" (String(value)),
\* a circular value exhausts the stack.
cloneSafe(value) ==
  CASE value = "json"      -> [threw |-> FALSE, value |-> "json"]
    [] value = "undefined" -> [threw |-> FALSE, value |-> "'undefined'"]
    [] value = "deep"      -> [threw |-> FALSE, value |-> "deep[max_depth_reached]"]
    [] value = "circular"  -> [threw |-> TRUE,  value |-> "RangeError"]

Message(type, callId, payload) == [type |-> type, callId |-> callId, payload |-> payload]

\* the reply of handleHostCall when the host function settled with outcome
\* (mutation: the reply carries another call's id)
replyToOtherCall(callId, outcome) ==
  LET other == CHOOSE c \in CallIds : c # callId
  IN  IF outcome = "throws" \/ cloneSafe(outcome).threw
      THEN Message("callError", other, "error")
      ELSE Message("callResult", other, cloneSafe(outcome).value)

\* the reply of handleHostCall when the host function settled with outcome
replyTo(callId, outcome) ==
  IF outcome = "throws" THEN Message("callError", callId, "error")
  ELSE IF cloneSafe(outcome).threw THEN Message("callError", callId, "error")
  ELSE Message("callResult", callId, cloneSafe(outcome).value)

workerAlive == worker \in {"starting", "user", "done", "hung"}

\* worker.postMessage(payload): a message to a worker that is gone is dropped
postToWorker(queue, message) == IF workerAlive THEN Append(queue, message) ELSE queue

\* `if (completed) return;` without the guard (mutation of alreadyCompleted)
neverCompleted(flag) == FALSE

\* a guard that always returns (mutation of alreadyCompleted)
alwaysCompleted(flag) == TRUE

\* `if (completed) return;` of finishWithResult and finishWithError
alreadyCompleted(flag) == flag

SandboxIdle ==
  /\ sbPc = "idle" /\ completed = FALSE /\ timer = "unset" /\ settles = 0
  /\ ignored = 0
  /\ sbOutcome = null /\ worker = "none" /\ awaiting = 0
  /\ toParent = <<>> /\ toWorker = <<>> /\ events = <<>>
  /\ pendingCalls = {} /\ nextCall = 1
  /\ hostRun = [c \in CallIds |-> "none"]
  /\ hostReturn = [c \in CallIds |-> null]
  /\ answers = [c \in CallIds |-> 0]
  /\ received = [c \in CallIds |-> null]

\* the worker left running (mutation of terminate)
keptRunning == worker

\* void worker.terminate(): a worker that has not exited is stopped
terminate == IF workerAlive THEN "terminated" ELSE worker

\* finishWithResult / finishWithError; timerNow is the timer's state when it
\* is called (fired when called from the timer's callback)
finish(outcome, timerNow) ==
  IF alreadyCompleted(completed)
  THEN /\ timer' = timerNow
       /\ ignored' = ignored + 1
       /\ UNCHANGED <<completed, settles, sbOutcome, sbPc, worker, events>>
  ELSE /\ completed' = TRUE
       /\ timer' = IF timerNow = "armed" THEN "cleared" ELSE timerNow
       /\ worker' = terminate
       /\ events' = IF workerAlive THEN Append(events, "exit1") ELSE events
       /\ settles' = settles + 1
       /\ sbOutcome' = Some(outcome)
       /\ sbPc' = "settled"
       /\ UNCHANGED ignored

notFinished == UNCHANGED <<completed, timer, settles, ignored, sbOutcome, sbPc, worker, events>>

\* runSandboxedCode up to the return of the promise
runSandboxedCode(code) ==
  /\ sbPc = "idle"
  /\ IF code = "ok"
     THEN /\ sbPc' = "running"
          /\ worker' = "starting"
          /\ timer' = "armed"
          /\ toWorker' = <<Message("start", 0, "code")>>
          /\ UNCHANGED <<settles, ignored, sbOutcome>>
     ELSE /\ sbPc' = "settled"
          /\ settles' = settles + 1
          /\ sbOutcome' = Some([kind |-> "error", value |-> code])
          /\ UNCHANGED <<worker, timer, toWorker, ignored>>
  /\ UNCHANGED <<completed, awaiting, toParent, events, pendingCalls, nextCall,
                 hostRun, hostReturn, answers, received>>

\* runSandboxedCode called directly, as the tests call it
RunSandboxedCode(code) ==
  /\ runSandboxedCode(code)
  /\ UNCHANGED <<upVars, catVars, pxVars, boVars, schVars, gwVars, rlVars, bsVars, shVars>>

\* the setTimeout callback
TimerFire ==
  /\ timer = "armed"
  /\ finish([kind |-> "error", value |-> "timed out"], "fired")
  /\ UNCHANGED <<awaiting, toParent, toWorker, pendingCalls, nextCall,
                 hostRun, hostReturn, answers, received>>
  /\ UNCHANGED <<upVars, catVars, pxVars, boVars, schVars, gwVars, rlVars, bsVars, shVars>>

\* worker.on("message"): call starts handleHostCall up to its first await
ParentReceive ==
  /\ toParent # <<>>
  /\ LET message == Head(toParent) IN
       /\ toParent' = Tail(toParent)
       /\ CASE message.type = "call" ->
                 /\ IF message.payload \in functionRegistry
                    THEN /\ hostRun' = [hostRun EXCEPT ![message.callId] = "running"]
                         /\ UNCHANGED <<toWorker, answers>>
                    ELSE /\ hostRun' = [hostRun EXCEPT ![message.callId] = "answered"]
                         /\ toWorker' = postToWorker(toWorker,
                                          Message("callError", message.callId, "unknownFn"))
                         /\ answers' = [answers EXCEPT ![message.callId] = @ + 1]
                 /\ notFinished
            [] message.type = "result" ->
                 /\ finish([kind |-> "result", value |-> message.payload], timer)
                 /\ UNCHANGED <<hostRun, toWorker, answers>>
            [] message.type = "error" ->
                 /\ finish([kind |-> "error", value |-> message.payload], timer)
                 /\ UNCHANGED <<hostRun, toWorker, answers>>
  /\ UNCHANGED <<awaiting, pendingCalls, nextCall, hostReturn, received>>
  /\ UNCHANGED <<upVars, catVars, pxVars, boVars, schVars, gwVars, rlVars, bsVars, shVars>>

\* handleHostCall after `await Promise.resolve(fn(...message.args))`
HostSettle(callId, outcome) ==
  /\ hostRun[callId] = "running"
  /\ hostRun' = [hostRun EXCEPT ![callId] = "answered"]
  /\ hostReturn' = [hostReturn EXCEPT ![callId] = Some(outcome)]
  /\ toWorker' = postToWorker(toWorker, replyTo(callId, outcome))
  /\ answers' = [answers EXCEPT ![callId] = @ + 1]
  /\ notFinished
  /\ UNCHANGED <<awaiting, toParent, pendingCalls, nextCall, received>>
  /\ UNCHANGED <<upVars, catVars, pxVars, boVars, schVars, gwVars, rlVars, bsVars, shVars>>

\* worker.on("error")
OnWorkerError ==
  /\ events # <<>> /\ Head(events) = "error"
  /\ \E rest \in {Tail(events)} :
       IF alreadyCompleted(completed)
       THEN /\ events' = rest
            /\ ignored' = ignored + 1
            /\ UNCHANGED <<completed, timer, settles, sbOutcome, sbPc, worker>>
       ELSE /\ completed' = TRUE
            /\ timer' = IF timer = "armed" THEN "cleared" ELSE timer
            /\ events' = rest
            /\ settles' = settles + 1
            /\ sbOutcome' = Some([kind |-> "error", value |-> "workerError"])
            /\ sbPc' = "settled"
            /\ UNCHANGED <<worker, ignored>>
  /\ UNCHANGED <<awaiting, toParent, toWorker, pendingCalls, nextCall,
                 hostRun, hostReturn, answers, received>>
  /\ UNCHANGED <<upVars, catVars, pxVars, boVars, schVars, gwVars, rlVars, bsVars, shVars>>

\* worker.on("exit")
OnWorkerExit ==
  /\ events # <<>> /\ Head(events) # "error"
  /\ IF ~completed /\ Head(events) # "exit0"
     THEN /\ completed' = TRUE
          /\ timer' = IF timer = "armed" THEN "cleared" ELSE timer
          /\ settles' = settles + 1
          /\ sbOutcome' = Some([kind |-> "error", value |-> "exited"])
          /\ sbPc' = "settled"
          /\ UNCHANGED ignored
     ELSE UNCHANGED <<completed, timer, settles, ignored, sbOutcome, sbPc>>
  /\ events' = Tail(events)
  /\ UNCHANGED <<worker, awaiting, toParent, toWorker, pendingCalls, nextCall,
                 hostRun, hostReturn, answers, received>>
  /\ UNCHANGED <<upVars, catVars, pxVars, boVars, schVars, gwVars, rlVars, bsVars, shVars>>

\* port.on("message") of the worker
WorkerReceive ==
  /\ workerAlive
  /\ toWorker # <<>>
  /\ LET message == Head(toWorker) IN
       /\ toWorker' = Tail(toWorker)
       /\ IF message.type = "start"
          THEN /\ worker' = "user"
               /\ UNCHANGED <<pendingCalls, received, awaiting>>
          ELSE /\ UNCHANGED worker
               /\ IF message.callId \notin pendingCalls
                  THEN UNCHANGED <<pendingCalls, received, awaiting>>
                  ELSE /\ pendingCalls' = pendingCalls \ {message.callId}
                       /\ received' = [received EXCEPT ![message.callId] =
                            Some([kind |-> message.type, value |-> message.payload])]
                       /\ awaiting' = IF awaiting = message.callId THEN 0 ELSE awaiting
  /\ UNCHANGED <<sbPc, completed, timer, settles, ignored, sbOutcome, toParent, events,
                 nextCall, hostRun, hostReturn, answers>>
  /\ UNCHANGED <<upVars, catVars, pxVars, boVars, schVars, gwVars, rlVars, bsVars, shVars>>

\* invokeHost: the user function calls a proxied function and awaits the
\* returned promise at once (wait) or goes on
InvokeHost(fnId, wait) ==
  /\ worker = "user" /\ awaiting = 0
  /\ nextCall <= NumHostCalls
  /\ pendingCalls' = pendingCalls \cup {nextCall}
  /\ toParent' = Append(toParent, Message("call", nextCall, fnId))
  /\ awaiting' = IF wait THEN nextCall ELSE 0
  /\ nextCall' = nextCall + 1
  /\ UNCHANGED <<sbPc, completed, timer, settles, ignored, sbOutcome, worker, toWorker,
                 events, hostRun, hostReturn, answers, received>>
  /\ UNCHANGED <<upVars, catVars, pxVars, boVars, schVars, gwVars, rlVars, bsVars, shVars>>

\* runUserCode: the user function returned (result) or threw (error)
UserSettle(type) ==
  /\ worker = "user" /\ awaiting = 0
  /\ worker' = "done"
  /\ toParent' = Append(toParent, Message(type, 0, IF type = "result" THEN "value" ELSE "thrown"))
  /\ UNCHANGED <<sbPc, completed, timer, settles, ignored, sbOutcome, awaiting, toWorker,
                 events, pendingCalls, nextCall, hostRun, hostReturn, answers, received>>
  /\ UNCHANGED <<upVars, catVars, pxVars, boVars, schVars, gwVars, rlVars, bsVars, shVars>>

\* the user function awaits a promise that never settles
UserHang ==
  /\ worker = "user" /\ awaiting = 0
  /\ worker' = "hung"
  /\ UNCHANGED <<sbPc, completed, timer, settles, ignored, sbOutcome, awaiting, toParent,
                 toWorker, events, pendingCalls, nextCall, hostRun, hostReturn,
                 answers, received>>
  /\ UNCHANGED <<upVars, catVars, pxVars, boVars, schVars, gwVars, rlVars, bsVars, shVars>>

\* the worker thread dies (resource limits, uncaught exception): the parent
\* gets an 'error' event and then an 'exit' event
WorkerCrash ==
  /\ workerAlive
  /\ worker' = "exited"
  /\ events' = events \o <<"error", "exit1">>
  /\ UNCHANGED <<sbPc, completed, timer, settles, ignored, sbOutcome, awaiting, toParent,
                 toWorker, pendingCalls, nextCall, hostRun, hostReturn,
                 answers, received>>
  /\ UNCHANGED <<upVars, catVars, pxVars, boVars, schVars, gwVars, rlVars, bsVars, shVars>>

\* messages of a worker that is gone may be discarded undelivered
DropQueued ==
  /\ worker \in {"terminated", "exited"}
  /\ toParent # <<>>
  /\ toParent' = <<>>
  /\ UNCHANGED <<sbPc, completed, timer, settles, ignored, sbOutcome, worker, awaiting,
                 toWorker, events, pendingCalls, nextCall, hostRun, hostReturn,
                 answers, received>>
  /\ UNCHANGED <<upVars, catVars, pxVars, boVars, schVars, gwVars, rlVars, bsVars, shVars>>

NextSandbox ==
  \/ \E code \in Codes : RunSandboxedCode(code)
  \/ TimerFire
  \/ ParentReceive
  \/ \E c \in CallIds, outcome \in HostOutcomes : HostSettle(c, outcome)
  \/ OnWorkerError
  \/ OnWorkerExit
  \/ WorkerReceive
  \/ \E fnId \in FnIds, wait \in BOOLEAN : InvokeHost(fnId, wait)
  \/ \E type \in {"result", "error"} : UserSettle(type)
  \/ UserHang
  \/ WorkerCrash
  \/ DropQueued


\* ------------------------------------- Sync Service: runs and scheduler
\* syncAllServers and startIntervalSync of src/src/sync-service.ts.

\* syncAllServers runs started in one behaviour
NumRuns == 2
Runs == 1..NumRuns

\* tools/list answers during scheduled syncs: no tool, one tool, and an
\* answer that lists the same tool name twice
SchedTool == [name |-> <<"b">>, title |-> null, inputSchema |-> "open"]
SchedLists == {<<>>, <<SchedTool>>, <<SchedTool, SchedTool>>}

\* configurations of the two servers, each enabled or not
SchedConfigs ==
  {<<[id |-> "s1", enabled |-> e1, allowTools |-> << <<"*">> >>],
     [id |-> "s2", enabled |-> e2, allowTools |-> << <<"*">> >>]>> :
     e1 \in BOOLEAN, e2 \in BOOLEAN}

\* every configured server, enabled or not (mutation of enabledServers)
everyServer == configs

\* listServerConfigs().filter((server) => server.enabled !== false)
enabledServers == SelectSeq(configs, LAMBDA server : server.enabled)

\* the .catch of the tick without its log entry (mutation of catchLogged)
catchSilent(entries) == entries

\* .catch((error) => logError("sync.interval.failed", ...))
catchLogged(entries) == entries + 1

SchedulerIdle ==
  /\ interval = "unset"
  /\ runPc = [r \in Runs |-> "idle"]
  /\ runIdx = [r \in Runs |-> 0]
  /\ summaries = [r \in Runs |-> <<>>]
  /\ failedLogs = [r \in Runs |-> 0]
  /\ runLog = [r \in Runs |-> <<>>]

\* startIntervalSync
StartIntervalSync ==
  /\ interval = "unset"
  /\ interval' = "active"
  /\ UNCHANGED <<runPc, runIdx, summaries, failedLogs, runLog>>
  /\ UNCHANGED <<upVars, catVars, pxVars, boVars, sbVars, gwVars, rlVars, bsVars, shVars>>

\* clearInterval(interval) of the shutdown
ClearInterval ==
  /\ interval = "active"
  /\ interval' = "cleared"
  /\ UNCHANGED <<runPc, runIdx, summaries, failedLogs, runLog>>
  /\ UNCHANGED <<upVars, catVars, pxVars, boVars, sbVars, gwVars, rlVars, bsVars, shVars>>

\* the setInterval callback: syncAllServers up to its first await, which is
\* in syncServer of the first enabled server (await upstream.listTools)
IntervalTick(r) ==
  /\ interval = "active"
  /\ runPc[r] = "idle"
  /\ \A q \in Runs : q < r => runPc[q] # "idle"
  /\ IF enabledServers = <<>>
     THEN /\ runPc' = [runPc EXCEPT ![r] = "returned"]
          /\ UNCHANGED <<runIdx, syncing, runLog>>
     ELSE /\ runPc' = [runPc EXCEPT ![r] = "syncing"]
          /\ runIdx' = [runIdx EXCEPT ![r] = 1]
          /\ syncing' = [syncing EXCEPT ![enabledServers[1].id] = @ + 1]
          /\ runLog' = [runLog EXCEPT ![r] =
                          Append(@, [ev |-> "start", id |-> enabledServers[1].id])]
  /\ UNCHANGED <<interval, summaries, failedLogs>>
  /\ UNCHANGED <<configs, servers, tools, snapshots, lastCommitted, lastThrown, searched>>
  /\ UNCHANGED <<upVars, pxVars, boVars, sbVars, gwVars, rlVars, bsVars, shVars>>

\* the run's syncServer rejected: syncAllServers rejects and the tick's catch
\* handler runs
runRejected(r) ==
  /\ runPc' = [runPc EXCEPT ![r] = "rejected"]
  /\ failedLogs' = [failedLogs EXCEPT ![r] = catchLogged(@)]
  /\ UNCHANGED <<runIdx, summaries>>

\* listTools of the run's current server resolves with list: the rest of
\* syncServer, then syncAllServers up to its next await or its return
RunSyncFinish(r, list, snapshotHash) ==
  /\ runPc[r] = "syncing"
  /\ LET server == enabledServers[runIdx[r]]
         normalizedTools == normalizeTools(server, list, snapshotHash)
     IN \E res \in {replaceServerTools(DB, server.id, snapshotHash, normalizedTools)} :
          /\ Replaced(server.id, snapshotHash, normalizedTools, res)
          /\ IF res.threw
             THEN /\ runRejected(r)
                  /\ syncing' = [syncing EXCEPT ![server.id] = @ - 1]
                  /\ runLog' = [runLog EXCEPT ![r] =
                                  Append(@, [ev |-> "rejected", id |-> server.id])]
             ELSE /\ summaries' = [summaries EXCEPT ![r] = Append(@, server.id)]
                  /\ UNCHANGED failedLogs
                  /\ IF runIdx[r] < Len(enabledServers)
                     THEN /\ runIdx' = [runIdx EXCEPT ![r] = @ + 1]
                          /\ syncing' = [syncing EXCEPT
                               ![server.id] = @ - 1,
                               ![enabledServers[runIdx[r] + 1].id] = @ + 1]
                          /\ runLog' = [runLog EXCEPT ![r] =
                               @ \o <<[ev |-> "resolved", id |-> server.id],
                                      [ev |-> "start",
                                       id |-> enabledServers[runIdx[r] + 1].id]>>]
                          /\ UNCHANGED runPc
                     ELSE /\ runPc' = [runPc EXCEPT ![r] = "returned"]
                          /\ syncing' = [syncing EXCEPT ![server.id] = @ - 1]
                          /\ runLog' = [runLog EXCEPT ![r] =
                               Append(@, [ev |-> "resolved", id |-> server.id])]
                          /\ UNCHANGED runIdx
  /\ UNCHANGED <<interval, configs>>
  /\ UNCHANGED <<upVars, pxVars, boVars, sbVars, gwVars, rlVars, bsVars, shVars>>

\* listTools of the run's current server rejects
RunSyncFail(r) ==
  /\ runPc[r] = "syncing"
  /\ runRejected(r)
  /\ syncing' = [syncing EXCEPT ![enabledServers[runIdx[r]].id] = @ - 1]
  /\ runLog' = [runLog EXCEPT ![r] =
                  Append(@, [ev |-> "rejected", id |-> enabledServers[runIdx[r]].id])]
  /\ UNCHANGED <<interval, configs, servers, tools, snapshots, lastCommitted, lastThrown, searched>>
  /\ UNCHANGED <<upVars, pxVars, boVars, sbVars, gwVars, rlVars, bsVars, shVars>>

NextScheduler ==
  \/ StartIntervalSync
  \/ ClearInterval
  \/ \E r \in Runs : IntervalTick(r)
  \/ \E r \in Runs, list \in SchedLists, h \in Hashes : RunSyncFinish(r, list, h)
  \/ \E r \in Runs : RunSyncFail(r)


\* ------------------------------------------------------ Gateway Server
\* The handlers of the search and execute tools, src/src/gateway-server.ts.
\* Each handler is one try block around the sandbox run, the normalization
\* (execute only) and the serialization, with one catch clause.

Ops == {"search", "execute"}

GatewayIdle == gwPc = "idle" /\ gwOp = null /\ gwResponse = null

\* `${op}() failed: ${message}`
failedText(op, message) == <<op, "() failed: ", message>>

\* normalizeExecuteOutput(value): the compacted copy of the value
normalizeExecuteOutput(value) == <<"normalized", value>>

\* serializeWithLimit(value, maxChars): [threw, value].  JSON.stringify throws
\* a RangeError when the text does not fit a string; the values a run delivers
\* went through transferSafe and hold nothing else it refuses.
serializeWithLimit(value, fits) ==
  IF fits THEN [threw |-> FALSE, value |-> <<"json", value>>]
  ELSE [threw |-> TRUE, value |-> "Invalid string length"]

\* the try block after `await runSandboxedCode(...)` settled with outcome:
\* [threw, value], value the returned response or the message of the error
tryBlock(op, outcome, fits) ==
  IF outcome.kind = "error" THEN [threw |-> TRUE, value |-> outcome.value]
  ELSE LET result == IF op = "execute" THEN normalizeExecuteOutput(outcome.value)
                     ELSE outcome.value
           text == serializeWithLimit(result, fits)
       IN  IF text.threw THEN [threw |-> TRUE, value |-> text.value]
           ELSE [threw |-> FALSE,
                 value |-> [content |-> text.value, structuredContent |-> result]]

\* a handler without the catch clause (mutation of catchClause)
catchNothing(op, tried) ==
  IF tried.threw THEN [settled |-> "rejected", value |-> tried.value]
  ELSE [settled |-> "returned", value |-> tried.value]

\* the catch clause: what the handler's promise settles with
catchClause(op, tried) ==
  IF tried.threw
  THEN [settled |-> "returned",
        value |-> [isError |-> TRUE, content |-> failedText(op, tried.value)]]
  ELSE [settled |-> "returned", value |-> tried.value]

\* the handler up to `await runSandboxedCode(...)`
ToolHandler(op, code) ==
  /\ gwPc = "idle"
  /\ gwPc' = "awaiting"
  /\ gwOp' = Some(op)
  /\ runSandboxedCode(code)
  /\ UNCHANGED gwResponse
  /\ UNCHANGED <<upVars, catVars, pxVars, boVars, schVars, rlVars, bsVars, shVars>>

\* the handler after the await, to its return
ToolHandlerResume(fits) ==
  /\ gwPc = "awaiting"
  /\ sbPc = "settled"
  /\ \E done \in {catchClause(gwOp[1], tryBlock(gwOp[1], sbOutcome[1], fits))} :
       /\ gwPc' = done.settled
       /\ gwResponse' = Some(done.value)
  /\ UNCHANGED gwOp
  /\ UNCHANGED <<upVars, catVars, pxVars, boVars, sbVars, schVars, rlVars, bsVars, shVars>>

NextGateway ==
  \/ \E op \in Ops, code \in Codes : ToolHandler(op, code)
  \/ \E fits \in BOOLEAN : ToolHandlerResume(fits)
  \/ TimerFire
  \/ ParentReceive
  \/ \E c \in CallIds, outcome \in HostOutcomes : HostSettle(c, outcome)
  \/ OnWorkerError
  \/ OnWorkerExit
  \/ WorkerReceive
  \/ \E fnId \in FnIds, wait \in BOOLEAN : InvokeHost(fnId, wait)
  \/ \E type \in {"result", "error"} : UserSettle(type)
  \/ UserHang
  \/ WorkerCrash
  \/ DropQueued


\* -------------------------------------------------------- Rate Limiters
\* FixedWindowRateLimiter of src/src/http-transport.ts (in memory) and
\* RedisFixedWindowRateLimiter of src/unnamed/part_004.  Time is counted in
\* units of 500 ms, two to the second.

\* the clock's last reading and the check() calls of one behaviour
MaxNow == 5
MaxChecks == 4

ClientKeys == {"a", "b"}
Limiters == {"memory", "redis"}

\* the options a limiter can be built with
RateLimitOptions == [maxRequests : {0, 2}, windowSeconds : {0, 2}]
DefaultRateLimit == [maxRequests |-> 2, windowSeconds |-> 1]

\* Math.max(1, maxRequests) of the constructors
maxRequestsOf(options) == Max(1, options.maxRequests)

\* Math.max(1, windowSeconds) * 1000, in units
windowMsOf(options) == Max(1, options.windowSeconds) * 2

\* Math.ceil(ms / 1000) of a duration in units
ceilSeconds(units) == (units + 1) \div 2

\* Math.ceil(Math.max(1, ms) / 1000): a duration of no unit is one millisecond
retryAfterSecondsOf(units) == IF units <= 0 THEN 1 ELSE ceilSeconds(units)

\* a limit that lets one more request through (mutation of withinLimit)
withinLimitAndOne(count, maxRequests) == count <= maxRequests + 1

\* `existing.count <= this.maxRequests`, `current > maxRequests` negated
withinLimit(count, maxRequests) == count <= maxRequests

\* `${this.namespace}:${hashKey(key)}`
hashKey(key) == <<"sha256", key>>
redisKey(key) == <<"thinmcp:ratelimit", hashKey(key)>>

RateLimitersConstructed(options) ==
  /\ rlNow = 0
  /\ rlOptions = options
  /\ buckets = [k \in ClientKeys |-> null]
  /\ redisKeys = [k \in {redisKey(c) : c \in ClientKeys} |-> null]
  /\ rlChecks = 0
  /\ redisErrors = 0
  /\ quota = [l \in Limiters |-> [k \in ClientKeys |-> null]]
  /\ lastVerdict = null

\* gc(now): the buckets whose window is over are deleted
gc(map, now) ==
  [k \in DOMAIN map |->
     IF map[k] # null /\ now - map[k][1].startedAt >= windowMsOf(rlOptions)
     THEN null ELSE map[k]]

\* LUA_SCRIPT run on the server at time now: [store, reply]
LUA_SCRIPT(store, key, windowMs, maxRequests, now) ==
  LET live == store[key] # null /\ store[key][1].expiresAt > now
      current == (IF live THEN store[key][1].count ELSE 0) + 1
      expiresAt == IF current = 1 THEN now + windowMs ELSE store[key][1].expiresAt
      ttl == expiresAt - now
  IN  [store |-> [store EXCEPT ![key] = Some([count |-> current, expiresAt |-> expiresAt])],
       reply |-> <<IF withinLimit(current, maxRequests) THEN 1 ELSE 0, current, ttl>>]

\* the fixed window of a key, kept apart from the limiters: a check made
\* windowMs or more after the window's first check opens the next window
windowAt(limiter, key) ==
  LET w == quota[limiter][key]
  IN  IF w = null \/ rlNow - w[1].startedAt >= windowMsOf(rlOptions)
      THEN [startedAt |-> rlNow, allowed |-> 0, fresh |-> TRUE]
      ELSE [startedAt |-> w[1].startedAt, allowed |-> w[1].allowed, fresh |-> FALSE]

\* the verdict is returned: the histories are brought up to date
returnVerdict(limiter, key, verdict, failed) ==
  LET w == windowAt(limiter, key) IN
    /\ quota' = [quota EXCEPT ![limiter][key] =
                   Some([startedAt |-> w.startedAt,
                         allowed |-> w.allowed + (IF verdict.allowed THEN 1 ELSE 0)])]
    /\ lastVerdict' = Some([limiter |-> limiter, key |-> key, verdict |-> verdict,
                            fresh |-> w.fresh, before |-> w.allowed, failed |-> failed])
    /\ rlChecks' = rlChecks + 1

\* FixedWindowRateLimiter.check(key)
MemoryCheck(key) ==
  /\ rlChecks < MaxChecks
  /\ LET existing == buckets[key] IN
       IF existing = null \/ rlNow - existing[1].startedAt >= windowMsOf(rlOptions)
       THEN /\ buckets' = gc([buckets EXCEPT ![key] =
                                Some([count |-> 1, startedAt |-> rlNow])], rlNow)
            /\ returnVerdict("memory", key,
                             [allowed |-> TRUE, retryAfterSeconds |-> null], FALSE)
       ELSE /\ buckets' = [buckets EXCEPT ![key] =
                             Some([existing[1] EXCEPT !.count = @ + 1])]
            /\ IF withinLimit(existing[1].count + 1, maxRequestsOf(rlOptions))
               THEN returnVerdict("memory", key,
                                  [allowed |-> TRUE, retryAfterSeconds |-> null], FALSE)
               ELSE returnVerdict("memory", key,
                      [allowed |-> FALSE,
                       retryAfterSeconds |-> Some(retryAfterSecondsOf(
                          existing[1].startedAt + windowMsOf(rlOptions) - rlNow))],
                      FALSE)
  /\ UNCHANGED <<rlNow, rlOptions, redisKeys, redisErrors>>
  /\ UNCHANGED <<upVars, catVars, pxVars, boVars, sbVars, schVars, gwVars, bsVars, shVars>>

\* RedisFixedWindowRateLimiter.check(key).  client.eval answers with the
\* script's reply (reply), rejects without the script having run (unreached),
\* or rejects after it ran (lost).
RedisCheck(key, eval) ==
  /\ rlChecks < MaxChecks
  /\ \E ran \in {LUA_SCRIPT(redisKeys, redisKey(key), windowMsOf(rlOptions),
                            maxRequestsOf(rlOptions), rlNow)} :
       /\ redisKeys' = IF eval = "unreached" THEN redisKeys ELSE ran.store
       /\ redisErrors' = IF eval = "reply" THEN redisErrors ELSE redisErrors + 1
       /\ IF eval # "reply"
          THEN returnVerdict("redis", key,
                             [allowed |-> TRUE, retryAfterSeconds |-> null], TRUE)
          ELSE IF ran.reply[1] = 1
          THEN returnVerdict("redis", key,
                             [allowed |-> TRUE, retryAfterSeconds |-> null], FALSE)
          ELSE returnVerdict("redis", key,
                             [allowed |-> FALSE,
                              retryAfterSeconds |->
                                Some(Max(1, ceilSeconds(ran.reply[3])))], FALSE)
  /\ UNCHANGED <<rlNow, rlOptions, buckets>>
  /\ UNCHANGED <<upVars, catVars, pxVars, boVars, sbVars, schVars, gwVars, bsVars, shVars>>

\* time passes
ClockAdvance ==
  /\ rlNow < MaxNow
  /\ rlNow' = rlNow + 1
  /\ UNCHANGED <<rlOptions, buckets, redisKeys, rlChecks, redisErrors, quota, lastVerdict>>
  /\ UNCHANGED <<upVars, catVars, pxVars, boVars, sbVars, schVars, gwVars, bsVars, shVars>>

NextRateLimit ==
  \/ \E key \in ClientKeys : MemoryCheck(key)
  \/ \E key \in ClientKeys, eval \in {"reply", "unreached", "lost"} : RedisCheck(key, eval)
  \/ ClockAdvance


\* ------------------------------------------------ bootstrap of a process
\* Each command (src/src/index.ts, sync and doctor) opens the database and
\* calls store.upsertServers(config.servers) with the servers of its config.

\* upsertServers calls of one behaviour
NumUpserts == 2

\* listServers(): the rows ordered by id
listServers(rows) ==
  [i \in 1..Cardinality(rows) |->
     CHOOSE r \in rows :
       Cardinality({o \in rows : IdRank(o.id) < IdRank(r.id)}) = i - 1]

\* the servers of a config file: up to two entries, ids repeated or not
UpsertConfigs ==
  LET entries == {[id |-> "s1", enabled |-> TRUE, allowTools |-> << <<"*">> >>],
                  [id |-> "s1", enabled |-> FALSE, allowTools |-> << <<"b">> >>],
                  [id |-> "s3", enabled |-> TRUE, allowTools |-> << <<"*">> >>]}
  IN  {<<>>} \cup {<<e>> : e \in entries}
        \cup {<<e, f>> : e \in entries, f \in entries}

\* store.upsertServers(config.servers) of a process that starts
UpsertServers(list) ==
  /\ Len(upsertLog) < NumUpserts
  /\ servers' = upsertServers(servers, list)
  /\ upsertLog' = Append(upsertLog,
                         [list |-> list, before |-> listServers(servers),
                          after |-> listServers(servers')])
  /\ UNCHANGED <<configs, tools, snapshots, syncing, lastCommitted, lastThrown, searched>>
  /\ UNCHANGED <<upVars, pxVars, boVars, sbVars, schVars, gwVars, rlVars, shVars>>

NextBootstrap ==
  \/ \E list \in UpsertConfigs : UpsertServers(list)
  \/ \E id \in ServerIds : SyncStart(id)
  \/ \E id \in ServerIds, list \in {<<>>, <<SchedTool>>}, h \in Hashes :
       SyncFinish(id, list, h)
  \/ \E id \in ServerIds : SyncFail(id)

\* ------------------------------------------------------ shutdown of main
\* const shutdown = async () => { ... } of src/src/index.ts, and its later
\* revision with the shared rate limiter.  One signal is delivered.

\* what main set up before it registered the signal handlers
Transports ==
  {[extraShutdown |-> e, sharedRateLimiter |-> l] :
     e \in BOOLEAN, l \in BOOLEAN}
NoTransport == [extraShutdown |-> FALSE, sharedRateLimiter |-> FALSE]

MainStarted(mode) ==
  /\ shMode = mode
  /\ shPc = "idle"
  /\ shLog = <<>>
  /\ dbOpen = TRUE

Settled == {"resolved", "rejected"}

\* a rejection passed on (mutation of catchUndefined)
catchNone(outcome) == outcome

\* promise.catch(() => undefined): what the await sees
catchUndefined(outcome) == "resolved"

noted(call, outcome) ==
  IF outcome = "rejected" THEN <<call \o " failed">> ELSE <<>>

\* shutdown() goes on after the await of a close that settled as seen, with
\* the calls in rest still to make; it stops at the first one it awaits
goOn(seen, done, rest) ==
  IF seen = "rejected"
  THEN /\ shPc' = "rejected"
       /\ shLog' = shLog \o done
  ELSE /\ shPc' = Head(rest)
       /\ shLog' = shLog \o done \o <<Head(rest)>>

\* the closes still to be called and awaited, in the order of the code
closesFrom(step) ==
  LET all == <<"extraShutdown", "sharedRateLimiter.close", "mcpServer.close">>
      has(c) == \/ c = "mcpServer.close"
                \/ c = "extraShutdown" /\ shMode.extraShutdown
                \/ c = "sharedRateLimiter.close" /\ shMode.sharedRateLimiter
  IN SelectSeq(SubSeq(all, step, Len(all)), has)

stepOf(call) ==
  CASE call = "extraShutdown" -> 1
    [] call = "sharedRateLimiter.close" -> 2
    [] call = "mcpServer.close" -> 3

\* the signal handler: shutdown() up to its first await
Shutdown ==
  /\ shPc = "idle"
  /\ interval = "active"
  /\ interval' = "cleared"
  /\ goOn("resolved", <<"clearInterval">>, closesFrom(1))
  /\ UNCHANGED <<shMode, dbOpen, runPc, runIdx, summaries, failedLogs, runLog>>
  /\ UNCHANGED <<upVars, catVars, pxVars, boVars, sbVars, gwVars, rlVars, bsVars>>

\* extraShutdown() or sharedRateLimiter.close() settles; the next close is called
CloseSettled(outcome) ==
  /\ shPc \in {"extraShutdown", "sharedRateLimiter.close"}
  /\ goOn(catchUndefined(outcome), noted(shPc, outcome), closesFrom(stepOf(shPc) + 1))
  /\ UNCHANGED <<shMode, dbOpen>>
  /\ UNCHANGED <<upVars, catVars, pxVars, boVars, sbVars, schVars, gwVars, rlVars, bsVars>>

\* mcpServer.close() settles; upstream.closeAll() is called
ServerCloseSettled(outcome) ==
  /\ shPc = "mcpServer.close"
  /\ IF catchUndefined(outcome) = "rejected"
     THEN /\ goOn("rejected", noted(shPc, outcome), <<>>)
          /\ UNCHANGED upVars
     ELSE /\ goOn("resolved", noted(shPc, outcome), <<"upstream.closeAll">>)
          /\ closeAllCalled
  /\ UNCHANGED <<shMode, dbOpen, catVars, pxVars>>
  /\ UNCHANGED <<boVars, sbVars, schVars, gwVars, rlVars, bsVars>>

\* upstream.closeAll() returns; store.close()
CloseAllReturned ==
  /\ shPc = "upstream.closeAll"
  /\ closeAllSettled
  /\ shPc' = "done"
  /\ shLog' = shLog \o <<"upstream.closeAll returned", "store.close">>
  /\ dbOpen' = FALSE
  /\ UNCHANGED shMode
  /\ UNCHANGED <<boVars, sbVars, schVars, gwVars, rlVars, bsVars>>

NextShutdown ==
  \/ StartIntervalSync
  \/ Shutdown
  \/ \E outcome \in Settled : CloseSettled(outcome)
  \/ \E outcome \in Settled : ServerCloseSettled(outcome)
  \/ CloseAllReturned
  \/ \E p \in Calls :
       \/ StartOp(p)
       \/ BackoffWake(p)
       \/ CallGetConnection(p)
       \/ OwnerResume(p)
       \/ SharerResume(p)
       \/ OpSucceed(p)
       \/ OpFail(p)
       \/ DisposeDone(p)
       \/ RetryWake(p)
  \/ \E a \in AttemptIds :
       \/ AttemptWake(a)
       \/ ConnectOk(a)
       \/ ConnectFail(a)
       \/ OnClose(a)
       \/ OnError(a)
  \/ Tick


\* ------------------------------------------------------ specifications

HttpServer == [transport |-> "http", enabled |-> TRUE, tokenMissing |-> FALSE]

\* Server s2 was synced by an earlier run of the process and is disabled in
\* the present configuration: its rows are in the database and no sync
\* touches them.
EarlierList == <<[name |-> <<"b">>, title |-> Some(<<"T">>), inputSchema |-> "open"]>>
EarlierServer == [id |-> "s2", enabled |-> TRUE, allowTools |-> << <<"*">> >>]
EarlierTools == normalizeTools(EarlierServer, EarlierList, "h1")
EarlierDB ==
  replaceServerTools([EmptyDB EXCEPT !.servers = upsertServers({}, <<EarlierServer>>)],
                     "s2", "h1", EarlierTools).db
EarlierCommitted ==
  [id \in ServerIds |->
     IF id = "s2" THEN Some([snapshotHash |-> "h1", tools |-> Range(EarlierTools)])
     ELSE null]

ConfigsWith(allow) ==
  <<[id |-> "s1", enabled |-> TRUE, allowTools |-> allow],
    [id |-> "s2", enabled |-> FALSE, allowTools |-> << <<"*">> >>]>>

\* The Upstream Manager under operations, callbacks and closeAll, for every
\* kind of server configuration.
InitUpstream ==
  /\ \E c \in {[transport |-> t, enabled |-> e, tokenMissing |-> m] :
                 t \in {"stdio", "http"}, e \in BOOLEAN, m \in BOOLEAN} :
       \* only an http server with auth bearer_env reads a token (buildRequestInit)
       /\ c.tokenMissing => (c.transport = "http" /\ c.enabled)
       /\ UpstreamConstructed(c)
  /\ CatalogBootstrapped(ConfigsWith(<< <<"*">> >>), EarlierDB, EarlierCommitted)
  /\ ProxyConstructed(TRUE)
  /\ PolicyConstructed(NoStdioOptions)
  /\ SandboxIdle
  /\ SchedulerIdle
  /\ GatewayIdle
  /\ RateLimitersConstructed(DefaultRateLimit)
  /\ upsertLog = <<>>
  /\ MainStarted(NoTransport)

SpecUpstream == InitUpstream /\ [][NextUpstream]_vars

\* A stdio upstream under three concurrent operations.
InitBackoffRace ==
  /\ UpstreamInvoked([transport |-> "stdio", enabled |-> TRUE,
                      tokenMissing |-> FALSE], NumRacingCalls)
  /\ CatalogBootstrapped(ConfigsWith(<< <<"*">> >>), EarlierDB, EarlierCommitted)
  /\ ProxyConstructed(TRUE)
  /\ PolicyConstructed(NoStdioOptions)
  /\ SandboxIdle
  /\ SchedulerIdle
  /\ GatewayIdle
  /\ RateLimitersConstructed(DefaultRateLimit)
  /\ upsertLog = <<>>
  /\ MainStarted(NoTransport)

SpecBackoffRace == InitBackoffRace /\ [][NextUpstream]_vars

\* main after startup in either transport mode, one stdio upstream, and a
\* signal at any moment.
InitShutdown ==
  /\ UpstreamConstructed([transport |-> "stdio", enabled |-> TRUE,
                          tokenMissing |-> FALSE])
  /\ CatalogBootstrapped(ConfigsWith(<< <<"*">> >>), EarlierDB, EarlierCommitted)
  /\ ProxyConstructed(TRUE)
  /\ PolicyConstructed(NoStdioOptions)
  /\ SandboxIdle
  /\ SchedulerIdle
  /\ GatewayIdle
  /\ RateLimitersConstructed(DefaultRateLimit)
  /\ upsertLog = <<>>
  /\ \E mode \in Transports :
       /\ mode.sharedRateLimiter => mode.extraShutdown
       /\ MainStarted(mode)

SpecShutdown == InitShutdown /\ [][NextShutdown]_vars

\* The Upstream Manager with its health endpoint read at any moment.
NextHealth == NextUpstream \/ GetHealthSnapshot

SpecHealth == InitUpstream /\ [][NextHealth]_vars

\* The Catalog Store under syncs and searches.
InitCatalog ==
  /\ UpstreamConstructed(HttpServer)
  /\ CatalogOpened(ConfigsWith(<< <<"*">> >>), EarlierDB, EarlierCommitted, TRUE)
  /\ ProxyConstructed(TRUE)
  /\ PolicyConstructed(NoStdioOptions)
  /\ SandboxIdle
  /\ SchedulerIdle
  /\ GatewayIdle
  /\ RateLimitersConstructed(DefaultRateLimit)
  /\ upsertLog = <<>>
  /\ MainStarted(NoTransport)

NextCatalog ==
  \/ \E id \in ServerIds : SyncStart(id)
  \/ \E id \in ServerIds, list \in ListsOf(TitledTools), h \in Hashes : SyncFinish(id, list, h)
  \/ \E id \in ServerIds : SyncFail(id)
  \/ \E query \in Queries : Search(query)

SpecCatalog == InitCatalog /\ [][NextCatalog]_vars

\* The Tool Proxy under calls and syncs, for every allow-list of server s1,
\* with and without a refresh hook.
InitProxy ==
  /\ UpstreamConstructed(HttpServer)
  /\ \E allow \in AllowLists :
       CatalogBootstrapped(ConfigsWith(allow), EarlierDB, EarlierCommitted)
  /\ \E r \in BOOLEAN : ProxyConstructed(r)
  /\ PolicyConstructed(NoStdioOptions)
  /\ SandboxIdle
  /\ SchedulerIdle
  /\ GatewayIdle
  /\ RateLimitersConstructed(DefaultRateLimit)
  /\ upsertLog = <<>>
  /\ MainStarted(NoTransport)

NextProxy ==
  \/ \E id \in ServerIds : SyncStart(id)
  \/ \E id \in ServerIds, list \in ListsOf(SchemaTools), h \in Hashes : SyncFinish(id, list, h)
  \/ \E id \in ServerIds : SyncFail(id)
  \/ \E c \in ProxyCalls, input \in ProxyInputs : ProxyStart(c, input)
  \/ \E c \in ProxyCalls, list \in ListsOf(SchemaTools), h \in Hashes : RefreshAfterMiss(c, list, h)
  \/ \E c \in ProxyCalls, list \in ListsOf(SchemaTools), h \in Hashes : RefreshAfterInvalid(c, list, h)
  \/ \E c \in ProxyCalls : RefreshReject(c)
  \/ \E c \in ProxyCalls : Dispatch(c)
  \/ \E c \in ProxyCalls, outcome \in UpstreamOutcomes : Settle(c, outcome)

SpecProxy == InitProxy /\ [][NextProxy]_vars

\* The Tool Proxy where every snapshot hash is the digest of the payload it
\* was computed from (syncServer: hashPayload(JSON.stringify({ fetchedAt,
\* server, tools }))), so that two payloads never share a hash.
\* tools/list answers: no tool, or tool "b" with either schema
SchemaLists ==
  {<<>>} \cup {<<t>> : t \in {u \in SchemaTools : u.name = <<"b">>}}

NextProxyHashed ==
  \/ \E id \in ServerIds : SyncStart(id)
  \/ \E id \in ServerIds, list \in SchemaLists, at \in FetchedAt :
       SyncFinish(id, list, hashPayload(at, id, list))
  \/ \E id \in ServerIds : SyncFail(id)
  \/ \E c \in ProxyCalls, input \in ProxyInputs : ProxyStart(c, input)
  \/ \E c \in ProxyCalls, list \in SchemaLists, at \in FetchedAt :
       /\ pxPc[c] = "refreshMiss"
       /\ RefreshAfterMiss(c, list, hashPayload(at, pxIn[c][1].serverId, list))
  \/ \E c \in ProxyCalls, list \in SchemaLists, at \in FetchedAt :
       /\ pxPc[c] = "refreshInvalid"
       /\ RefreshAfterInvalid(c, list, hashPayload(at, pxIn[c][1].serverId, list))
  \/ \E c \in ProxyCalls : RefreshReject(c)
  \/ \E c \in ProxyCalls : Dispatch(c)
  \/ \E c \in ProxyCalls, outcome \in UpstreamOutcomes : Settle(c, outcome)

SpecProxyHashed == InitProxy /\ [][NextProxyHashed]_vars

\* computeBackoffMs for every policy the constructor can build.
InitBackoff ==
  /\ UpstreamConstructed(HttpServer)
  /\ CatalogBootstrapped(ConfigsWith(<< <<"*">> >>), EarlierDB, EarlierCommitted)
  /\ ProxyConstructed(TRUE)
  /\ \E options \in StdioOptions : PolicyConstructed(options)
  /\ SandboxIdle
  /\ SchedulerIdle
  /\ GatewayIdle
  /\ RateLimitersConstructed(DefaultRateLimit)
  /\ upsertLog = <<>>
  /\ MainStarted(NoTransport)

NextBackoff == ComputeBackoff

SpecBackoff == InitBackoff /\ [][NextBackoff]_vars

\* One sandbox invocation.  The parent's event loop runs every callback that
\* is due: the deadline timer, delivered messages and worker events; host
\* functions settle; the worker thread handles the messages it is sent.  The
\* user function is under no obligation: it may never return.
InitSandbox ==
  /\ UpstreamConstructed(HttpServer)
  /\ CatalogBootstrapped(ConfigsWith(<< <<"*">> >>), EarlierDB, EarlierCommitted)
  /\ ProxyConstructed(TRUE)
  /\ PolicyConstructed(NoStdioOptions)
  /\ SandboxIdle
  /\ SchedulerIdle
  /\ GatewayIdle
  /\ RateLimitersConstructed(DefaultRateLimit)
  /\ upsertLog = <<>>
  /\ MainStarted(NoTransport)

SpecSandbox ==
  /\ InitSandbox /\ [][NextSandbox]_vars
  /\ WF_vars(\E code \in Codes : RunSandboxedCode(code))
  /\ WF_vars(TimerFire)
  /\ WF_vars(ParentReceive)
  /\ WF_vars(\E c \in CallIds, outcome \in HostOutcomes : HostSettle(c, outcome))
  /\ WF_vars(OnWorkerError)
  /\ WF_vars(OnWorkerExit)
  /\ WF_vars(WorkerReceive)

\* One invocation of a gateway tool handler with the sandbox run it awaits.
InitGateway ==
  /\ UpstreamConstructed(HttpServer)
  /\ CatalogBootstrapped(ConfigsWith(<< <<"*">> >>), EarlierDB, EarlierCommitted)
  /\ ProxyConstructed(TRUE)
  /\ PolicyConstructed(NoStdioOptions)
  /\ SandboxIdle
  /\ SchedulerIdle
  /\ GatewayIdle
  /\ RateLimitersConstructed(DefaultRateLimit)
  /\ upsertLog = <<>>
  /\ MainStarted(NoTransport)

SpecGateway == InitGateway /\ [][NextGateway]_vars

\* The two rate limiters, for every option they can be built with.
InitRateLimit ==
  /\ UpstreamConstructed(HttpServer)
  /\ CatalogBootstrapped(ConfigsWith(<< <<"*">> >>), EarlierDB, EarlierCommitted)
  /\ ProxyConstructed(TRUE)
  /\ PolicyConstructed(NoStdioOptions)
  /\ SandboxIdle
  /\ SchedulerIdle
  /\ GatewayIdle
  /\ \E options \in RateLimitOptions : RateLimitersConstructed(options)
  /\ upsertLog = <<>>
  /\ MainStarted(NoTransport)

SpecRateLimit == InitRateLimit /\ [][NextRateLimit]_vars

\* Processes bootstrapping against one database while a server is synced.
InitBootstrap ==
  /\ UpstreamConstructed(HttpServer)
  /\ \E db \in {EmptyDB, EarlierDB} :
       CatalogBootstrapped(ConfigsWith(<< <<"*">> >>), db,
                           IF db = EmptyDB THEN [id \in ServerIds |-> null]
                           ELSE EarlierCommitted)
  /\ ProxyConstructed(TRUE)
  /\ PolicyConstructed(NoStdioOptions)
  /\ SandboxIdle
  /\ SchedulerIdle
  /\ GatewayIdle
  /\ RateLimitersConstructed(DefaultRateLimit)
  /\ upsertLog = <<>>
  /\ MainStarted(NoTransport)

SpecBootstrap == InitBootstrap /\ [][NextBootstrap]_vars

\* The interval scheduler and its syncAllServers runs, for every choice of
\* enabled servers.  An active interval timer keeps firing; nothing obliges an
\* upstream to answer.
InitScheduler ==
  /\ UpstreamConstructed(HttpServer)
  /\ \E c \in SchedConfigs : CatalogBootstrapped(c, EarlierDB, EarlierCommitted)
  /\ ProxyConstructed(TRUE)
  /\ PolicyConstructed(NoStdioOptions)
  /\ SandboxIdle
  /\ SchedulerIdle
  /\ GatewayIdle
  /\ RateLimitersConstructed(DefaultRateLimit)
  /\ upsertLog = <<>>
  /\ MainStarted(NoTransport)

SpecScheduler ==
  /\ InitScheduler /\ [][NextScheduler]_vars
  /\ WF_vars(\E r \in Runs : IntervalTick(r))

\* ------------------------------------- properties of the Upstream Manager

\* transports that are open: connected and not yet closed
OpenTransports == {a \in AttemptIds : tr[a] = "open"}

\* connect promises that have not settled
PendingAttempts == {a \in AttemptIds : att[a] \in {"waiting", "connecting"}}

\* C1: in every reachable state the server has at most one active connection:
\* at most one transport is open at a time, whatever the interleaving of
\* operations, failures, close callbacks and closeAll.
C1_AtMostOneActiveConnection == Cardinality(OpenTransports) <= 1

\* C2: in every reachable state at most one connection attempt is in flight
\* for the server; no second transport is built while an attempt is pending,
\* including across retries and closeAll.
C2_AtMostOneAttemptInFlight == Cardinality(PendingAttempts) <= 1

\* C4 as stated: successfulCalls + failedCalls <= totalCalls in every
\* reachable state, stdio retries included.
C4_OutcomesWithinTotalCalls ==
  health.successfulCalls + health.failedCalls <= health.totalCalls

\* C4 amended: every attempt of an invocation marks one outcome, so the
\* outcome counters are bounded by totalCalls times the attempts one
\* invocation may make: maxRetries + 1 for stdio, 1 for http.
C4_OutcomesWithinAttempts ==
  health.successfulCalls + health.failedCalls
    <= health.totalCalls * (IF cfg.transport = "stdio" THEN maxRetries + 1 ELSE 1)

\* C4 witness: a stdio invocation has failed on its first attempt and on its
\* retry: two failures are counted for one call.
C4_RetriedCallCounted ==
  /\ cfg.transport = "stdio"
  /\ health.totalCalls = 1
  /\ health.failedCalls = 2

Matches(pattern, name) ==
  \/ pattern = <<"*">>
  \/ pattern = name
  \/ /\ Len(pattern) > 0
     /\ pattern[Len(pattern)] = "*"
     /\ Len(name) >= Len(pattern) - 1
     /\ \A i \in 1..(Len(pattern) - 1) : name[i] = pattern[i]

\* the allow-list of serverId in the catalog has an entry that name matches
OnAllowList(serverId, name) ==
  \E r \in servers : /\ r.id = serverId
                     /\ \E i \in DOMAIN r.allowTools : Matches(r.allowTools[i], name)

\* C3 as stated: whenever ToolProxy.call calls the upstream for
\* (serverId, toolName), the pair is in the catalog at that moment and the
\* name matches the server's allow-list, whatever syncs and refreshes interleave.
C3_DispatchedPairInCatalog ==
  dispatch # null =>
    /\ dispatch[1].inCatalog
    /\ OnAllowList(dispatch[1].serverId, dispatch[1].name)

\* C3 amended: whenever ToolProxy.call calls the upstream for
\* (serverId, toolName), the name matches the server's allow-list and a
\* catalog lookup made by that call returned the record of that pair; a sync
\* may have removed the pair between the lookup and the upstream call.
C3_DispatchedPairWasLookedUp ==
  dispatch # null =>
    /\ OnAllowList(dispatch[1].serverId, dispatch[1].name)
    /\ dispatch[1].known # null
    /\ dispatch[1].known[1].serverId = dispatch[1].serverId
    /\ dispatch[1].known[1].toolName = dispatch[1].name

\* C3 witness: under an allow-list that blocks some names, a call reached the
\* upstream for a pair that a sync had removed from the catalog meanwhile.
C3_DispatchedAfterRemoval ==
  /\ dispatch # null
  /\ ~dispatch[1].inCatalog
  /\ \E r \in servers : r.id = "s1" /\ r.allowTools # << <<"*">> >>

\* ----------------------------------------- properties of the Catalog Store

RowsOf(serverId) == {r \in tools : r.serverId = serverId}

\* the hash of the snapshots row of serverId with the greatest id, if any
LatestSnapshotHash(serverId) ==
  LET own == {i \in DOMAIN snapshots : snapshots[i].serverId = serverId}
  IN IF own = {} THEN null
     ELSE Some(snapshots[CHOOSE i \in own : \A j \in own : j <= i].snapshotHash)

\* C6: for each server, all its tool rows carry the same snapshotHash, after
\* any sequence of syncs, overlapping runs for one server included.
C6_RowsShareSnapshotHash ==
  \A r \in tools, o \in tools :
     r.serverId = o.serverId => r.snapshotHash = o.snapshotHash

\* C6 witness: a server has two tool rows, was replaced under both hashes,
\* and another sync of it is still in flight.
C6_ReplacedWhileSyncing ==
  /\ Cardinality(RowsOf("s1")) = 2
  /\ \A h \in Hashes : \E i \in DOMAIN snapshots :
        snapshots[i] = [serverId |-> "s1", snapshotHash |-> h]
  /\ syncing["s1"] > 0

SeenByGetTool(serverId) ==
  {getTool(tools, serverId, n)[1] :
     n \in {m \in ToolNames : getTool(tools, serverId, m) # null}}

\* what searchTools returns for a server
SeenBySearch(serverId) ==
  Range(searchTools(tools, [query |-> null, serverId |-> Some(serverId),
                            limit |-> Some(100)]))

\* the records of the complete tool set of the most recent replaceServerTools
\* call for serverId that returned
CommittedRecords(serverId) ==
  IF lastCommitted[serverId] = null THEN {}
  ELSE {mapToolRecord(toolRow(t, lastCommitted[serverId][1].snapshotHash)) :
          t \in lastCommitted[serverId][1].tools}

\* C8: in every state, so at any moment a reader runs, getTool and searchTools
\* show for each server exactly one complete tool set: the one of the most
\* recent replaceServerTools that returned, never a partly deleted or partly
\* inserted one.
C8_ReadersSeeCompleteSets ==
  \A id \in ServerIds :
     /\ SeenByGetTool(id) = CommittedRecords(id)
     /\ SeenBySearch(id) = CommittedRecords(id)

\* C8 witness: a two-tool set replaced an earlier set of the server, a search
\* has read the catalog since, and a sync is in flight.
C8_ReadAfterReplace ==
  /\ lastCommitted["s1"] # null
  /\ Cardinality(lastCommitted["s1"][1].tools) = 2
  /\ Len(snapshots) = 3
  /\ searched # null
  /\ Len(searched[1].result) = 3
  /\ syncing["s1"] > 0

\* the fields of a tool that a ToolRecord carries
ToolRecordOf(t) ==
  [serverId |-> t.serverId, toolName |-> t.toolName, title |-> t.title,
   inputSchema |-> t.inputSchema, snapshotHash |-> t.snapshotHash]

\* C9: after replaceServerTools(s, h, p, T) has returned, getTool(s, t.name)
\* returns t for every t in T and null for every other name.
C9_GetToolReturnsReplacedTools ==
  \A id \in ServerIds :
     lastCommitted[id] # null =>
       LET T == lastCommitted[id][1].tools IN
       /\ \A t \in T : getTool(tools, id, t.toolName) = Some(ToolRecordOf(t))
       /\ \A x \in ToolNames :
            (\A t \in T : t.toolName # x) => getTool(tools, id, x) = null

\* clamp(k, 1, 100)
Clamped(k) == IF k < 1 THEN 1 ELSE IF k > 100 THEN 100 ELSE k

\* C10: searchTools({limit: k}) returns at most clamp(k, 1, 100) rows for
\* every integer k, and at most 30 rows when limit is omitted.
C10_SearchReturnsAtMostClampedLimit ==
  searched # null =>
    Len(searched[1].result) <=
      (IF searched[1].query.limit = null THEN 30
       ELSE Clamped(searched[1].query.limit[1]))


\* ----------------------------------------------- properties of the backoff

\* C11: the retry backoff delay is monotonically non-decreasing in
\* consecutiveFailures and never exceeds maxBackoffMs, for every policy the
\* constructor can build.
C11_BackoffMonotoneAndCapped ==
  /\ prevBackoffMs <= backoffMs
  /\ backoffMs <= stdioPolicy.maxBackoffMs

\* the delay has grown from a value below the cap up to the cap
C11_BackoffReachesCap ==
  /\ failures >= 2
  /\ prevBackoffMs < backoffMs
  /\ backoffMs = stdioPolicy.maxBackoffMs
  /\ computeBackoffUnder(stdioPolicy, failures + 1) = backoffMs


\* ----------------------------------------------- properties of the sandbox

TimedOut == Some([kind |-> "error", value |-> "timed out"])

\* C12: the promise of runSandboxedCode is settled at most once, and once the
\* deadline timer has fired it is never resolved with a result: it stays
\* rejected with the timeout error.
C12_SettlesOnceNeverAfterTimeout ==
  /\ settles <= 1
  /\ timer = "fired" => sbOutcome = TimedOut

\* the worker's result was handled by the parent after the timer had fired
C12_ResultAfterTimeout ==
  /\ timer = "fired"
  /\ ignored > 0
  /\ worker = "terminated"
  /\ toParent = <<>>
  /\ events = <<>>

\* C13: every invocation eventually settles, and when the deadline timer fires
\* the promise is rejected with the timeout error.
C13_EverySandboxRunSettles ==
  /\ (sbPc = "running") ~> (sbPc = "settled")
  /\ [](timer = "fired" => sbOutcome = TimedOut)

\* the user function never returned and the run ended by the timer
C13_HungRunTimedOut ==
  /\ timer = "fired"
  /\ sbOutcome = TimedOut
  /\ ignored = 0
  /\ nextCall = 1


\* what handleHostCall replies to call c: callError for an unregistered fnId,
\* otherwise the reply to what the host function did
expectedReply(c) ==
  IF hostReturn[c] = null THEN Message("callError", c, "unknownFn")
  ELSE replyTo(c, hostReturn[c][1])

\* the worker has posted the call message of c
posted(c) == c < nextCall

startedIn(r) == {enabledServers[i].id : i \in 1..runIdx[r]}

enabledIds == {enabledServers[i].id : i \in DOMAIN enabledServers}

\* C15: when syncServer rejects for some server in a syncAllServers run,
\* every other enabled server is still synced in that run.
C15_FailureDoesNotInterruptOtherServers ==
  \A r \in Runs : runPc[r] = "rejected" => startedIn(r) = enabledIds

\* C16: a tick whose syncAllServers rejects is logged as sync.interval.failed,
\* only clearInterval stops the interval, and after a rejected run the next
\* tick still fires and starts a new run unless the interval is cleared.
C16_RejectedTickKeepsScheduler ==
  /\ [](\A r \in Runs : runPc[r] = "rejected" => failedLogs[r] = 1)
  /\ [][interval = "active" /\ interval' # "active" => ClearInterval]_vars
  /\ \A r \in Runs \ {NumRuns} :
       (runPc[r] = "rejected") ~> (runPc[r + 1] # "idle" \/ interval = "cleared")

\* a run was rejected and a later tick has started a run that completed
C16_SyncAfterRejectedTick ==
  \E r \in Runs \ {NumRuns} :
    /\ runPc[r] = "rejected" /\ failedLogs[r] = 1
    /\ runPc[r + 1] = "returned" /\ summaries[r + 1] # <<>>
    /\ interval = "active"


\* ------------------------------------- properties of validation in the proxy

\* the proxy has called upstream.callTool for call c
dispatchedFor(c) == forwarded[c] # <<>>

\* outcomes of a call whose arguments failed validation, uncured by a refresh:
\* the first validation error, the second validation error, the refresh error
InvalidOutcomes == {"validationFailed", "validationFailedAgain", "refreshFailedInvalid"}

\* C17: a call whose arguments fail validation, uncured by a refresh, rejects
\* with a validation-failed error and upstream.callTool is not invoked for it.
C17_InvalidArgumentsRejectedAsValidationFailed ==
  \A c \in ProxyCalls :
    pxOut[c] \in InvalidOutcomes =>
      /\ pxOut[c] \in {"validationFailed", "validationFailedAgain"}
      /\ ~dispatchedFor(c)

\* C18: a call that passes the checks and validation calls upstream.callTool
\* exactly once, with the serverId, name and arguments of its input, and
\* settles with what the upstream settled with.
C18_ValidCallForwardedOnceVerbatim ==
  \A c \in ProxyCalls :
    /\ pxPc[c] = "calling" =>
         /\ Len(forwarded[c]) = 1
         /\ forwarded[c][1].params.serverId = pxIn[c][1].serverId
         /\ forwarded[c][1].params.name = pxIn[c][1].name
         /\ forwarded[c][1].params.arguments =
              IF pxIn[c][1].arguments = "absent" THEN null
              ELSE Some(pxIn[c][1].arguments)
    /\ pxPc[c] = "done" /\ dispatchedFor(c) =>
         /\ Len(forwarded[c]) = 1
         /\ forwarded[c][1].returned = Some(pxOut[c])
    /\ pxPc[c] = "done" /\ pxOut[c] \in UpstreamOutcomes => dispatchedFor(c)

\* a call with arguments was forwarded and returned the upstream's result
C18_ForwardedCallReturned ==
  \E c \in ProxyCalls :
    /\ pxPc[c] = "done" /\ pxOut[c] = "result"
    /\ dispatchedFor(c)
    /\ forwarded[c][1].params.arguments = Some("good")
    /\ dispatch[1].known[1].inputSchema = "strict"

\* C19: when the validation against the refreshed record fails again, the
\* call rejects with the first validation error, not with the second one.
C19_SecondFailureRejectsWithFirstError ==
  \A c \in ProxyCalls : pxOut[c] # "validationFailedAgain"

\* ------------------------------------------------ gateway tool handlers

\* the messages runSandboxedCode rejects with and the one of serialization
ErrorMessages == {"empty", "tooLong", "timed out", "thrown", "workerError", "exited",
                  "Invalid string length"}

\* C20: the search and execute handlers never throw: an error of the sandbox
\* run, of the normalization or of the serialization is returned as the
\* response {isError: true, content: '<op>() failed: <message>'}, with op the
\* tool invoked and message the error's message.
C20_HandlersReturnErrorEnvelope ==
  /\ gwPc # "rejected"
  /\ gwPc = "returned" =>
       /\ sbOutcome[1].kind = "error" =>
            gwResponse[1] = [isError |-> TRUE,
                             content |-> failedText(gwOp[1], sbOutcome[1].value)]
       /\ "isError" \in DOMAIN gwResponse[1] =>
            \E message \in ErrorMessages :
              gwResponse[1] = [isError |-> TRUE,
                               content |-> failedText(gwOp[1], message)]

\* an execute handler returned the envelope of a run that timed out
C20_SandboxErrorReturned ==
  /\ gwPc = "returned"
  /\ gwOp = Some("execute")
  /\ gwResponse = Some([isError |-> TRUE,
                        content |-> <<"execute", "() failed: ", "timed out">>])

\* ---------------------------------------------- rate limiting properties

\* limiter l kept to the fixed window: no window of a key has more than
\* maxRequests checks allowed, the last check was refused with a positive
\* retryAfterSeconds if its window was full, and allowed if it opened a window
FixedWindowKept(l) ==
  /\ \A k \in ClientKeys :
       quota[l][k] # null => quota[l][k][1].allowed <= maxRequestsOf(rlOptions)
  /\ lastVerdict # null /\ lastVerdict[1].limiter = l =>
       /\ lastVerdict[1].before >= maxRequestsOf(rlOptions) =>
            /\ ~lastVerdict[1].verdict.allowed
            /\ lastVerdict[1].verdict.retryAfterSeconds # null
            /\ lastVerdict[1].verdict.retryAfterSeconds[1] > 0
       /\ lastVerdict[1].fresh => lastVerdict[1].verdict.allowed

\* C21 as stated: both limiters keep to the fixed window: per key at most
\* maxRequests checks of one window are allowed, every further check of the
\* window is refused with retryAfterSeconds > 0, a new window counts afresh.
C21_FixedWindowEnforced == \A l \in Limiters : FixedWindowKept(l)

\* C21: the in-memory limiter keeps to the fixed window, and so does the
\* Redis limiter as long as no client.eval call has rejected.
C21_FixedWindowEnforcedWhileRedisAnswers ==
  /\ FixedWindowKept("memory")
  /\ redisErrors = 0 => FixedWindowKept("redis")

\* the Redis limiter, never having failed, refused a check of a full window
\* and the in-memory limiter has a full window as well
C21_FullWindowRefused ==
  /\ redisErrors = 0
  /\ lastVerdict # null
  /\ lastVerdict[1].limiter = "redis"
  /\ ~lastVerdict[1].verdict.allowed
  /\ lastVerdict[1].before = maxRequestsOf(rlOptions)
  /\ \E k \in ClientKeys :
       /\ quota["memory"][k] # null
       /\ quota["memory"][k][1].allowed = maxRequestsOf(rlOptions)
       /\ buckets[k] # null /\ buckets[k][1].count > maxRequestsOf(rlOptions)

\* ------------------------------------------------ bootstrap properties

\* C22: upsertServers is idempotent and keeps the sync state: a second
\* upsertServers(C) right after the first leaves listServers() as it was, and
\* no upsertServers call changes the lastSyncedAt of a server that existed.
C22_UpsertIdempotentKeepsLastSynced ==
  \A i \in DOMAIN upsertLog :
    /\ \A j \in DOMAIN upsertLog[i].before :
         \E k \in DOMAIN upsertLog[i].after :
           /\ upsertLog[i].after[k].id = upsertLog[i].before[j].id
           /\ upsertLog[i].after[k].lastSynced = upsertLog[i].before[j].lastSynced
    /\ (i > 1 /\ upsertLog[i].list = upsertLog[i - 1].list
              /\ upsertLog[i].before = upsertLog[i - 1].after)
         => upsertLog[i].after = upsertLog[i].before

\* a config with a new server and a change to a synced one was upserted twice
\* in a row
C22_UpsertedTwice ==
  /\ Len(upsertLog) = 2
  /\ upsertLog[2].list = upsertLog[1].list
  /\ upsertLog[2].before = upsertLog[1].after
  /\ upsertLog[1].after # upsertLog[1].before
  /\ Len(upsertLog[1].after) > Len(upsertLog[1].before)
  /\ \E j \in DOMAIN upsertLog[1].before :
       /\ upsertLog[1].before[j].lastSynced
       /\ upsertLog[1].before[j] \notin Range(upsertLog[1].after)

\* ------------------------------------- properties of withServerOperation

RECURSIVE retriesUpTo(_)
retriesUpTo(n) == IF n = 0 THEN 0 ELSE ops[n].retries + retriesUpTo(n - 1)

\* C23: an operation makes at most maxRetries + 1 attempts on a stdio server
\* and one on an HTTP server; it rejects only when the attempts are used up,
\* with the error of the last attempt, and it added one to restarts per
\* retry.  (An operation on a disabled server makes no attempt: C25.)
C23_AttemptsBoundedRestartsPerRetry ==
  /\ \A p \in Calls :
       /\ ops[p].attempts <= (IF cfg.transport = "stdio" THEN maxRetries + 1 ELSE 1)
       /\ ops[p].retries <= ops[p].attempts
       /\ ops[p].outcome \in {"ok", "fail"} =>
            /\ ops[p].attempts >= 1
            /\ ops[p].retries = ops[p].attempts - 1
            /\ cfg.transport = "http" => ops[p].attempts = 1
       /\ ops[p].outcome = "fail" =>
            /\ ops[p].attempts = (IF cfg.transport = "stdio" THEN maxRetries + 1 ELSE 1)
            /\ ops[p].thrown = ops[p].attempts
       /\ ops[p].outcome = "ok" => ops[p].thrown = 0
  /\ health.restarts = retriesUpTo(invocations)

\* on a stdio server one operation succeeded on its retry and another one
\* rejected after its last attempt
C23_RetriedToBothOutcomes ==
  /\ cfg.transport = "stdio"
  /\ \E p \in Calls : ops[p].outcome = "fail" /\ ops[p].attempts = maxRetries + 1
  /\ \E p \in Calls : ops[p].outcome = "ok" /\ ops[p].attempts = maxRetries + 1
                      /\ ops[p].lastError = maxRetries

\* C24: a health snapshot reports disabled for a server that is not enabled,
\* whatever else holds; for an enabled one healthy iff connected with no
\* consecutive failure, down iff three or more consecutive failures, degraded
\* in the remaining cases; the counters of a disabled server are zero.
C24_SnapshotStatusDerived ==
  snapshot # <<>> =>
    LET s == snapshot[1] IN
      /\ s.enabled = cfg.enabled
      /\ ~s.enabled =>
           /\ s.status = "disabled"
           /\ s.totalCalls = 0 /\ s.successfulCalls = 0 /\ s.failedCalls = 0
           /\ s.consecutiveFailures = 0 /\ s.restarts = 0
      /\ s.enabled =>
           /\ s.status \in {"healthy", "degraded", "down"}
           /\ s.status = "healthy" <=> (s.connected /\ s.consecutiveFailures = 0)
           /\ s.status = "down" <=> s.consecutiveFailures >= 3
           /\ s.status = "degraded" <=>
                (~(s.connected /\ s.consecutiveFailures = 0)
                 /\ s.consecutiveFailures < 3)

\* a snapshot shows the server down while it is connected
C24_SnapshotDownWhileConnected ==
  /\ snapshot # <<>>
  /\ snapshot[1].status = "down"
  /\ snapshot[1].connected

\* C25: every invocation is counted in totalCalls before it is rejected for
\* a disabled server: an invocation rejected as disabled has been counted and
\* has made no connection attempt.
C25_DisabledCallCounted ==
  \A p \in Calls :
    ops[p].outcome = "disabled" =>
      /\ health.totalCalls >= Cardinality({q \in Calls : ops[q].outcome = "disabled"})
      /\ ops[p].attempts = 0
      /\ nextAtt = 1

\* the step in which invocation p returns its result
succeeds(p) == ops[p].outcome # "ok" /\ ops'[p].outcome = "ok"

\* the step in which an attempt of invocation p is caught as failed
attemptFails(p) == ops'[p].lastError # ops[p].lastError

\* C26: every successful call sets consecutiveFailures to 0 and clears
\* lastError and nextRetryAtMs; every failed attempt adds exactly one to
\* consecutiveFailures, whether a retry follows it or the operation rejects.
C26_StreakResetOnSuccessIncrementedPerFailure ==
  [][\A p \in Calls :
       /\ succeeds(p) =>
            /\ health'.consecutiveFailures = 0
            /\ health'.lastError = "null"
            /\ ~health'.nextRetrySet
       /\ attemptFails(p) =>
            health'.consecutiveFailures = health.consecutiveFailures + 1]_vars

\* an operation failed an attempt, retried and succeeded, while another one
\* rejected: the streak stands at 0
C26_StreakResetAfterFailures ==
  /\ \E p \in Calls : ops[p].outcome = "ok" /\ ops[p].lastError = 1
  /\ \E p \in Calls : ops[p].outcome = "fail"
  /\ health.consecutiveFailures = 0
  /\ health.failedCalls >= 3

\* C27: down is sticky until a success: a server whose status is down stays
\* down through every step in which no listTools/callTool succeeds, be it a
\* failure, a close callback, a disposal or a step of a concurrent operation.
C27_DownUntilSuccess ==
  [][(deriveStatus(health) = "down" /\ deriveStatus(health') # "down")
       => \E p \in Calls : succeeds(p)]_vars

\* the server is down, has failed once more since it went down and is
\* connected again
C27_DownThroughFailureAndReconnect ==
  /\ deriveStatus(health) = "down"
  /\ health.consecutiveFailures >= 4
  /\ health.connected

\* C28: the backoff is honoured: once a failed attempt has set nextRetryAtMs
\* to a deadline, no transport is built for the server before that deadline,
\* by the operation that retries or by any other one.
C28_NoTransportBeforeDeadline == ~deadline.early

\* ------------------------------------------- properties of ToolProxy.call

\* the lookups and hook runs of call c, without its validations
steps(c) == SelectSeq(trail[c], LAMBDA e : e.ev # "validate")

\* the call settled without a catalog record and without an upstream call
rejectedAs(c, error) ==
  /\ pxPc[c] = "done"
  /\ pxOut[c] = error
  /\ forwarded[c] = <<>>

\* C29, as far as the code goes: a call whose lookup misses rejects as not
\* found without a hook; with a hook it runs the hook, and when the hook
\* resolves it looks the tool up once more and rejects as not found if the
\* tool is still missing.  When the hook rejects, the call rejects with the
\* hook's error and makes no second lookup.  The upstream is not called on
\* any of these paths.
C29_MissRefreshedOnceThenNotFound ==
  \A c \in ProxyCalls :
    LET t == steps(c) IN
    (t # <<>> /\ t[1].ev = "miss") =>
      /\ ~hasRefresh => Len(t) = 1 /\ rejectedAs(c, "notFound")
      /\ hasRefresh =>
           /\ Len(t) >= 2 /\ t[2].ev = "refresh"
           /\ Len(t) = 2 => \/ pxPc[c] = "refreshMiss"
                            \/ rejectedAs(c, "refreshFailed")
           /\ Len(t) >= 3 => t[3].ev \in {"miss", "hit"}
           /\ (Len(t) >= 3 /\ t[3].ev = "miss") =>
                Len(t) = 3 /\ rejectedAs(c, "notFound")

\* C29 as the spec states it: after a miss, a call that found no record at
\* all rejects as not found
C29_MissEndsNotFound ==
  \A c \in ProxyCalls :
    LET t == steps(c) IN
    (/\ t # <<>> /\ t[1].ev = "miss"
     /\ pxPc[c] = "done"
     /\ \A i \in 1..Len(t) : t[i].ev # "hit")
      => rejectedAs(c, "notFound")

\* the hook ran after a miss, the tool was still missing and the call was
\* rejected as not found
C29_StillMissingAfterRefresh ==
  \E c \in ProxyCalls :
    /\ hasRefresh
    /\ Len(steps(c)) = 3
    /\ steps(c)[1].ev = "miss" /\ steps(c)[2].ev = "refresh"
    /\ steps(c)[3].ev = "miss"
    /\ rejectedAs(c, "notFound")

\* the validations call c ran
validations(c) == SelectSeq(trail[c], LAMBDA e : e.ev = "validate")

\* C30: every validation applies a validator compiled from the input schema
\* of the record that was just looked up, also after a sync gave the tool a
\* new schema under a new snapshot hash and the cache holds the old validator.
C30_ValidatorOfLookedUpRecord ==
  \A c \in ProxyCalls :
    \A i \in 1..Len(validations(c)) :
      validations(c)[i].compiledFrom = validations(c)[i].inputSchema

\* a call validated against a record, the refresh brought a record of the
\* same tool with another schema, and the call validated against that one
\* while the validator of the first was in the cache
C30_ValidatedAfterSchemaChange ==
  \E c \in ProxyCalls :
    /\ Len(validations(c)) = 2
    /\ validations(c)[1].inputSchema # validations(c)[2].inputSchema
    /\ Cardinality(validatorByKey) = 2

\* --------------------------------------- properties of syncAllServers

\* the ids of the servers configured enabled, in configured order
enabledIdsFrom(i) ==
  LET RECURSIVE from(_)
      from(k) == IF k > Len(configs) THEN <<>>
                 ELSE IF configs[k].enabled THEN <<configs[k].id>> \o from(k + 1)
                 ELSE from(k + 1)
  IN from(i)

\* C31: a syncAllServers run calls syncServer for the enabled servers only,
\* in configured order, and starts the next call only when the one before
\* has resolved; a run that returns has called it for every enabled server
\* and returns their summaries in that order.  (A run whose syncServer
\* rejects stops at that server: C15.)
C31_EnabledServersInOrderOneAtATime ==
  \A r \in Runs :
    LET ids == enabledIdsFrom(1)
        log == runLog[r]
    IN /\ Len(log) <= 2 * Len(ids)
       /\ \A k \in 1..Len(log) :
            /\ log[k].id = ids[(k + 1) \div 2]
            /\ (k % 2 = 1) <=> log[k].ev = "start"
            /\ log[k].ev = "rejected" => k = Len(log)
       /\ summaries[r] = SubSeq(ids, 1, Len(summaries[r]))
       /\ Len(summaries[r]) = Cardinality({k \in 1..Len(log) : log[k].ev = "resolved"})
       /\ runPc[r] = "returned" => summaries[r] = ids /\ Len(log) = 2 * Len(ids)

\* with both servers enabled a run synced the first, then the second, and
\* returned both summaries
C31_BothServersSyncedInOrder ==
  \E r \in Runs :
    /\ runPc[r] = "returned"
    /\ summaries[r] = <<"s1", "s2">>
    /\ Len(runLog[r]) = 4

\* ----------------------------------------------- properties of shutdown

\* the steps of shutdown() in the order the claim gives them
ShutdownOrder ==
  <<"clearInterval", "extraShutdown", "sharedRateLimiter.close",
    "mcpServer.close", "upstream.closeAll", "upstream.closeAll returned",
    "store.close">>

rankOf(step) == CHOOSE k \in DOMAIN ShutdownOrder : ShutdownOrder[k] = step

\* the steps shutdown() has taken, without the failures noted
stepsTaken ==
  SelectSeq(shLog, LAMBDA e : \E k \in DOMAIN ShutdownOrder : ShutdownOrder[k] = e)

taken(step) == \E k \in DOMAIN stepsTaken : stepsTaken[k] = step

\* C32: shutdown clears the sync interval first, then closes the transport
\* (http) and the server, then calls closeAll, and closes the catalog only
\* when closeAll has returned; a close of the transport or of the server
\* that fails does not stop it before closeAll and the catalog close.
C32_ShutdownStepsInOrder ==
  /\ \A j, k \in DOMAIN stepsTaken :
       j < k => rankOf(stepsTaken[j]) < rankOf(stepsTaken[k])
  /\ stepsTaken # <<>> => stepsTaken[1] = "clearInterval" /\ interval = "cleared"
  /\ taken("mcpServer.close") /\ shMode.extraShutdown => taken("extraShutdown")
  /\ taken("upstream.closeAll") => taken("mcpServer.close")
  /\ taken("store.close") =>
       /\ taken("upstream.closeAll returned")
       /\ closer = "returned"
  /\ dbOpen <=> ~taken("store.close")
  /\ shPc # "rejected"
  /\ shPc = "done" => ~dbOpen

\* the transport and the server both failed to close, and shutdown went on
\* to close a registered upstream connection and then the catalog
C32_ClosedAfterFailedCloses ==
  /\ shPc = "done"
  /\ \E k \in DOMAIN shLog : shLog[k] = "extraShutdown failed"
  /\ \E k \in DOMAIN shLog : shLog[k] = "mcpServer.close failed"
  /\ \E a \in AttemptIds : tr[a] = "closed" /\ att[a] = "resolved"
  /\ ~dbOpen

\* ------------------------------------------ properties of getConnection

\* C33: a connection attempt that failed has its transport closed (if one
\* was built) and registered no connection; its in-flight entry stays only
\* until the caller that made the attempt resumes; and every caller waiting
\* on the attempt resumes into the failure handling.
C33_FailedAttemptLeavesNothing ==
  /\ [](\A a \in AttemptIds : att[a] = "rejected" =>
          /\ tr[a] \in {"none", "closed"}
          /\ connections # a
          /\ connecting = a => \E p \in Calls : pc[p] = "awaitOwn" /\ held[p] = a)
  /\ [][\A p \in Calls :
          (/\ pc[p] \in {"awaitOwn", "awaitInflight"}
           /\ att[held[p]] = "rejected"
           /\ pc'[p] # pc[p]) => attemptFails(p)]_vars

\* one attempt was made, client.connect failed, two callers shared it and both
\* were rejected; nothing is registered or in flight
C33_SharedAttemptRejectedBoth ==
  /\ nextAtt = 2
  /\ att[1] = "rejected" /\ tr[1] = "closed"
  /\ \A p \in 1..2 : ops[p].lastError >= 1
  /\ connecting = 0 /\ connections = 0

\* ------------------------------------------------ properties of closeAll

\* C34: when closeAll returns, having awaited the disposal of the connection
\* it found registered, no connection is registered and no transport is open.
C34_NothingOpenWhenCloseAllReturns ==
  [][(closer = "settling" /\ closeTarget # 0 /\ closer' = "returned") =>
       (connections' = 0 /\ \A a \in AttemptIds : tr'[a] # "open")]_vars

\* --------------------------------------- properties of replaceServerTools

\* C35: after a replaceServerTools call that threw, the database is the one
\* before the call: the tool rows of every server, the snapshots rows and the
\* servers rows with their lastSyncedAt.
C35_ThrownReplaceLeavesCatalog ==
  lastThrown.call # null =>
    /\ lastThrown.call[1].after = lastThrown.call[1].before
    /\ DB = lastThrown.call[1].before

\* a replaceServerTools call for a server that had tool rows, a snapshots row
\* and a lastSyncedAt threw, and the database holds those rows
C35_ThrownOverEarlierRows ==
  /\ lastThrown.call # null
  /\ \E r \in tools : r.serverId = lastThrown.call[1].serverId
  /\ \E i \in DOMAIN snapshots :
        snapshots[i].serverId = lastThrown.call[1].serverId
  /\ \E r \in servers : r.id = lastThrown.call[1].serverId /\ r.lastSynced

\* --------------------------------------- properties of runSandboxedCode

\* C36: once the promise of an invocation that started a worker is settled,
\* by a result, an error message, an 'error' event, a nonzero exit or the
\* deadline, the deadline timer is no longer armed and the worker no longer
\* runs.
C36_SettledLeavesNoTimerNoWorker ==
  (sbPc = "settled" /\ worker # "none") =>
     /\ timer \in {"cleared", "fired"}
     /\ ~workerAlive

\* the promise was resolved with the worker's result while the user function
\* had a host call outstanding: the timer is cleared, the worker terminated
C36_ResultEndsTimerAndWorker ==
  /\ sbPc = "settled"
  /\ sbOutcome # null /\ sbOutcome[1].kind = "result"
  /\ timer = "cleared"
  /\ worker = "terminated"
  /\ pendingCalls # {}

\* C38: once the promise is settled, no host function is started: handling a
\* call message does not invoke the registered function.
C38_NoHostFunctionAfterSettlement ==
  [][sbPc = "settled" =>
       \A c \in CallIds : hostRun'[c] = "running" => hostRun[c] = "running"]_vars

\* ------------------------------------- properties of the connected flag

\* nothing is in progress for the server: no operation, no connection
\* attempt, no disposal, no closeAll, no close callback still to run
Quiescent ==
  /\ Busy = {}
  /\ \A a \in AttemptIds : att[a] \notin {"waiting", "connecting"}
  /\ closer # "settling"
  /\ \A a \in AttemptIds : ~(oncl[a] = "armed" /\ tr[a] = "closed")

\* C37: whenever nothing is in progress for the server, its connected flag is
\* true exactly when a connection is registered for it.
C37_ConnectedIffRegistered ==
  Quiescent => (health.connected <=> connections # 0)

\* C39: the failure handling of an operation disposes of no connection but
\* the one the operation was using, and the close callback of a transport
\* unregisters no connection but its own.
C39_FailureClosesOnlyOwnConnection ==
  /\ [][\A p \in Calls :
          (pc[p] # "disposing" /\ pc'[p] = "disposing") =>
             disposing'[p] = held[p]]_vars
  /\ [][\A a \in AttemptIds :
          (oncl[a] = "armed" /\ oncl'[a] = "fired") =>
             connections \in {0, a}]_vars

\* ------------------------- properties of validateInputWithRefresh

\* C40: a call whose first validation failed and whose refresh hook rejected
\* (the call ends without a second lookup of the tool) rejects with the first
\* validation error, and upstream.callTool is not invoked for it.
C40_HookRejectionKeepsValidationError ==
  [][\A c \in ProxyCalls :
       (/\ pxPc[c] = "refreshInvalid"
        /\ pxPc'[c] = "done"
        /\ trail'[c] = trail[c]) =>
          /\ pxOut'[c] = "validationFailed"
          /\ forwarded'[c] = <<>>]_vars

=============================================================================
